---- MODULE Spec2Model ----
(***************************************************************************)
(* The on-chain admission controller of the transaction firewall:          *)
(* TransactionFirewall (contracts/TransactionFirewall.sol) together with   *)
(* the SecurityRegistry it reads and writes (the Solidity source embedded  *)
(* at the end of src/services/ContractIntegrationService.ts).              *)
(*                                                                         *)
(* One action is one external transaction.  A transaction that reverts     *)
(* leaves no trace on chain, so an action is enabled exactly when the call *)
(* does not revert: every require, every failing transfer and every        *)
(* modifier of the source is a conjunct of the action's guard.             *)
(*                                                                         *)
(* The variable ledger is history: it records, per admission id, what the  *)
(* contract did to the outside world (events emitted, calls made to the    *)
(* target, ETH transferred back).  The contract never reads it.            *)
(***************************************************************************)
EXTENDS Integers, Sequences, FiniteSets, TLC

\* ---------------------------------------------------------------- bounds
MaxTx == 2          \* submissions accepted over a run of Spec
MaxAdmissions == 1  \* submissions accepted over a run of SpecAdmission
MaxValue == 1       \* the value of an admission that carries one, in ETH
MaxTime == 25       \* last block timestamp reached, in hours
MaxReports == 3     \* reportScamAddress calls counted per target
MaxElapsed == 40000 \* milliseconds an analysis is followed for
MaxBatchLen == 3    \* longest batch whose analyses are followed one by one
MaxListed == 1      \* blacklistedAddresses entries followed per further address
MaxFetches == 4     \* fetchContractFromBlockchain calls followed per address
MaxFiled == 2       \* community reports submitted
MaxReportTime == 800 \* last block timestamp reached by the reports, in hours

\* ------------------------------------------------------ program constants
HIGH_RISK_THRESHOLD == 50
CRITICAL_RISK_THRESHOLD == 75
QUARANTINE_PERIOD == 24          \* 24 hours; block.timestamp counted in hours
MAX_RISK_SCORE == 100
BLACKLIST_THRESHOLD == 75
REPORTS_TO_BLACKLIST == 3
THREAT_REPUTATION == 10
MAX_BATCH == 10                  \* require(targets.length <= 10)
MAX_BATCH_TRANSACTIONS == 10     \* transactions.length > 10

\* ----------------------------------------------------------- input sets
ZERO_ADDRESS == "0x0"
Owner == "owner"
Reporting == "reporting"        \* address of the CommunityReporting contract
Firewall == "firewall"
Users == {"alice", "bob"}       \* callers of the firewall
Senders == {"alice"}            \* callers of safeExecute
Targets == {"t1"}
CacheAddresses == {"t1", "t2", "t3"}   \* addresses asked of ContractService
Payloads == {"0xa9059cbb"}
Values == {0, MaxValue}
ScoreInputs == {0, 50, 74, 75, 101}
TimeStep == QUARANTINE_PERIOD \div 2
BatchSizes == {0, 1, MAX_BATCH, MAX_BATCH + 1}
BalanceCap == MaxValue * (MaxAdmissions + 1)

VARIABLES
    pendingTransactions,   \* txId -> TransactionData
    userNonces,            \* address -> uint256
    emergencyBlocked,      \* address -> bool
    emergencyMode,
    bypassMode,
    balance,               \* address(this).balance of the firewall
    inCall,                \* the admission whose target.call is running
    securityData,          \* registry: address -> SecurityData
    userProfiles,          \* registry: address -> UserProfile
    authorizedAnalyzers,   \* registry: address -> bool
    blacklistedAddresses,  \* registry: address[]
    now,                   \* block.timestamp
    ledger,                \* history of external effects per admission id
    txRequest,             \* API: the Transaction handed to analyzeTransaction
    serviceReplies,        \* API: what the four analysis components answer
    riskAnalysis,          \* API: the RiskAnalysis returned for txRequest
    sourceStatus,          \* API: analysis component -> pending, fulfilled, rejected
    settleOrder,           \* API: the components in the order they settled
    elapsed,               \* API: milliseconds since analyzeTransaction began
    batchRequest,          \* API: the transactions of a batch request
    batchFinished,         \* API: positions of the batch in the order analysed
    batchResponse,         \* API: the response to the batch request
    contract_info,         \* API: the contract_info table, address -> row
    fetches,               \* API: fetchContractFromBlockchain calls per address
    reports,               \* reporting: reportId -> Report
    reporters,             \* reporting: address -> Reporter
    userReports,           \* reporting: address -> uint256[]
    reportExists,          \* reporting: the report hashes taken
    reportCounter,
    tokenHeld,             \* token: balanceOf(address of CommunityReporting)
    rewardMinters,         \* token: address -> bool
    payouts                \* history of token transfers per report id

vars == <<pendingTransactions, userNonces, emergencyBlocked, emergencyMode,
          bypassMode, balance, inCall, securityData, userProfiles,
          authorizedAnalyzers, blacklistedAddresses, now, ledger,
          txRequest, serviceReplies, riskAnalysis,
          sourceStatus, settleOrder, elapsed,
          batchRequest, batchFinished, batchResponse,
          contract_info, fetches,
          reports, reporters, userReports, reportExists, reportCounter,
          tokenHeld, rewardMinters, payouts>>

firewallVars == <<pendingTransactions, userNonces, emergencyBlocked,
                  emergencyMode, bypassMode, balance, inCall, ledger>>
registryVars == <<securityData, userProfiles, authorizedAnalyzers,
                  blacklistedAddresses>>
chainVars == <<firewallVars, registryVars, now>>
collectVars == <<sourceStatus, settleOrder, elapsed>>
batchVars == <<batchRequest, batchFinished, batchResponse>>
cacheVars == <<contract_info, fetches>>
reportingVars == <<reports, reporters, userReports, reportExists,
                   reportCounter, tokenHeld, rewardMinters, payouts>>
apiVars == <<txRequest, serviceReplies, riskAnalysis, collectVars, batchVars,
            cacheVars>>

\* txId = keccak256(sender, target, data, value, nonce, timestamp): the hash
\* is taken to be injective, so the id is the tuple it is computed from.
\* faulty variant: the id derived without the sender's nonce
TxIdWithoutNonce(sender, target, data, value, nonce, timestamp) ==
    <<sender, target, data, value, 0, timestamp>>

TxId(sender, target, data, value, nonce, timestamp) ==
    <<sender, target, data, value, nonce, timestamp>>

TransactionData(target, data, value, timestamp, riskScore) ==
    [target |-> target, data |-> data, value |-> value,
     timestamp |-> timestamp, executed |-> FALSE, riskScore |-> riskScore]

TxIds == DOMAIN pendingTransactions

TotalTx == userNonces["alice"] + userNonces["bob"]

\* ------------------------------------------------------------- registry
getRiskScore(target) == securityData[target].riskScore

isBlacklisted(target) == securityData[target].isBlacklisted

\* userProfiles after recordThreatBlocked(user)
recordThreatBlocked(profiles, user) ==
    IF user \in DOMAIN profiles
    THEN [profiles EXCEPT ![user].threatsBlocked = @ + 1,
                          ![user].reputationScore = @ + THREAT_REPUTATION]
    ELSE profiles   \* the profile of a contract is not followed

\* onlyAuthorizedAnalyzer, for a call made by the firewall
FirewallAuthorized == authorizedAnalyzers[Firewall]


\* --------------------------------------------------------------- history
\* The entry opened for an admission by safeExecute.
LedgerEntry(sender, msgValue) ==
    [sender |-> sender, msgValue |-> msgValue,
     decision |-> "Submitted",   \* the event safeExecute emitted
     state |-> "Submitted",      \* the last event emitted for the id
     calls |-> 0,                \* calls made to the target for the id
     callArgs |-> {},            \* <<target, data, value>> of those calls
     blockRefunds |-> 0,         \* transfers made when the id was blocked
     failRefunds |-> 0,          \* transfers made after a failed call
     refundTo |-> {},            \* recipients of those transfers
     refundedWei |-> 0]          \* total transferred back

\* payable(to).transfer(amount), guarded by `amount > 0` in every caller
Transferred(entry, to, amount, kind) ==
    IF amount > 0
    THEN [entry EXCEPT !.refundTo = @ \cup {to},
                       !.refundedWei = @ + amount,
                       !.blockRefunds = IF kind = "block" THEN @ + 1 ELSE @,
                       !.failRefunds = IF kind = "fail" THEN @ + 1 ELSE @]
    ELSE entry

\* ------------------------------------------------------------- firewall
notEmergencyBlocked(msgSender) == ~emergencyBlocked[msgSender]

notInEmergencyMode == ~emergencyMode

IsCritical(riskScore) == riskScore >= CRITICAL_RISK_THRESHOLD

\* faulty variant: the high threshold compared strictly
IsHighRiskStrict(riskScore) == riskScore > HIGH_RISK_THRESHOLD

IsHighRisk(riskScore) == riskScore >= HIGH_RISK_THRESHOLD

\* faulty variant: the admission's value transferred back, not msg.value
SubmissionRefundOfValue(msgValue, value) == value

\* the amount safeExecute transfers back when it blocks
SubmissionRefund(msgValue, value) == msgValue

\* the recipient of the transfers of executeQueuedTransaction,
\* _executeTransaction and emergencyCancel
RefundRecipient(msgSender, txId) == msgSender

\* faulty variant: the call made without the value
TargetCallNoValue(txData) == <<txData.target, txData.data, 0>>

\* the arguments of txData.target.call{value: txData.value}(txData.data)
TargetCall(txData) == <<txData.target, txData.data, txData.value>>

\* _executeTransaction(txId), run by msgSender with the firewall holding bal
\* (msg.value already credited).  The low-level call fails without reverting;
\* the transfer that follows a failed call moves the same value to msgSender.
\* Either way the firewall must hold txData.value: a call that cannot be
\* funded fails, and the transfer after it then reverts the transaction.
CanExecute(pending, txId, bal) == bal >= pending[txId].value

executeTransaction(pending, led, bal, txId, msgSender, success) ==
    LET txData == pending[txId]
        called == [led[txId] EXCEPT !.calls = @ + 1,
                                    !.callArgs = @ \cup {TargetCall(txData)},
                                    !.state = "Executed",
                                    !.decision = IF @ = "Submitted"
                                                 THEN "Executed" ELSE @]
    IN  [pending |-> [pending EXCEPT ![txId].executed = TRUE],
         balance |-> bal - txData.value,
         ledger  |-> [led EXCEPT ![txId] =
                        IF ~success
                        THEN Transferred(called, RefundRecipient(msgSender, txId),
                                         txData.value, "fail")
                        ELSE called]]

safeExecute(msgSender, target, data, value, msgValue) ==
    /\ notEmergencyBlocked(msgSender)
    /\ notInEmergencyMode
    /\ target # ZERO_ADDRESS
    /\ msgValue >= value
    /\ LET riskScore == getRiskScore(target)
           blacklisted == isBlacklisted(target)
           txId == TxId(msgSender, target, data, value, userNonces[msgSender], now)
           pending == txId :> TransactionData(target, data, value, now, riskScore)
                      @@ pendingTransactions
           led == txId :> LedgerEntry(msgSender, msgValue) @@ ledger
           bal == balance + msgValue
           blocked == [led EXCEPT ![txId] =
                          Transferred([@ EXCEPT !.decision = "Blocked",
                                                !.state = "Blocked"],
                                      msgSender,
                                      SubmissionRefund(msgValue, value), "block")]
       IN  /\ userNonces' = [userNonces EXCEPT ![msgSender] = @ + 1]
           /\ UNCHANGED <<emergencyBlocked, emergencyMode, bypassMode,
                          securityData, authorizedAnalyzers,
                          blacklistedAddresses, now, inCall, apiVars,
                   reportingVars>>
           /\ IF blacklisted
              THEN /\ pendingTransactions' = pending
                   /\ ledger' = blocked
                   /\ balance' = bal - SubmissionRefund(msgValue, value)
                   /\ UNCHANGED userProfiles
              ELSE IF IsCritical(riskScore)
              THEN /\ FirewallAuthorized
                   /\ pendingTransactions' = pending
                   /\ ledger' = blocked
                   /\ balance' = bal - SubmissionRefund(msgValue, value)
                   /\ userProfiles' = recordThreatBlocked(userProfiles, msgSender)
              ELSE IF IsHighRisk(riskScore)
              THEN /\ pendingTransactions' = pending
                   /\ ledger' = [led EXCEPT ![txId].decision = "Quarantined",
                                            ![txId].state = "Quarantined"]
                   /\ balance' = bal
                   /\ UNCHANGED userProfiles
              ELSE /\ CanExecute(pending, txId, bal)
                   /\ \E success \in BOOLEAN :
                        LET r == executeTransaction(pending, led, bal, txId,
                                                    msgSender, success)
                        IN  /\ pendingTransactions' = r.pending
                            /\ ledger' = r.ledger
                            /\ balance' = r.balance
                   /\ UNCHANGED userProfiles

\* faulty variant: the period added on the wrong side of the comparison
QuarantineOverSwapped(txData) == now + QUARANTINE_PERIOD >= txData.timestamp

QuarantineOver(txData) == now >= txData.timestamp + QUARANTINE_PERIOD

\* faulty variant: the release decided on the score stored at submission
RiskIncreasedAtSubmission(target) ==
    \E txId \in TxIds :
        /\ pendingTransactions[txId].target = target
        /\ IsCritical(pendingTransactions[txId].riskScore)

RiskIncreased(target) ==
    isBlacklisted(target) \/ IsCritical(getRiskScore(target))

executeQueuedTransaction(msgSender, txId) ==
    /\ txId \in TxIds                           \* txData.timestamp > 0
    /\ ~pendingTransactions[txId].executed
    /\ QuarantineOver(pendingTransactions[txId])
    /\ LET txData == pendingTransactions[txId]
       IN  IF RiskIncreased(txData.target)
           THEN /\ balance >= txData.value      \* transfer reverts otherwise
                /\ ledger' = [ledger EXCEPT ![txId] =
                                Transferred([@ EXCEPT !.state = "Blocked"],
                                            RefundRecipient(msgSender, txId),
                                            txData.value, "block")]
                /\ balance' = balance - txData.value
                /\ UNCHANGED pendingTransactions
           ELSE /\ CanExecute(pendingTransactions, txId, balance)
                /\ \E success \in BOOLEAN :
                     LET r == executeTransaction(pendingTransactions, ledger,
                                                 balance, txId, msgSender, success)
                     IN  /\ pendingTransactions' = r.pending
                         /\ ledger' = r.ledger
                         /\ balance' = r.balance
    /\ UNCHANGED <<userNonces, emergencyBlocked, emergencyMode, bypassMode,
                   securityData, userProfiles, authorizedAnalyzers,
                   blacklistedAddresses, now, inCall, apiVars,
                   reportingVars>>

\* emergencyCancel has no access modifier: any msgSender may call it.  Below
\* the high threshold the call returns without changing anything.
emergencyCancel(msgSender, txId) ==
    /\ txId \in TxIds
    /\ ~pendingTransactions[txId].executed
    /\ LET txData == pendingTransactions[txId]
       IN  IF IsHighRisk(getRiskScore(txData.target))
           THEN /\ balance >= txData.value
                /\ FirewallAuthorized
                /\ pendingTransactions' =
                       [pendingTransactions EXCEPT ![txId].executed = TRUE]
                /\ ledger' = [ledger EXCEPT ![txId] =
                                Transferred([@ EXCEPT !.state = "Blocked"],
                                            RefundRecipient(msgSender, txId),
                                            txData.value, "block")]
                /\ balance' = balance - txData.value
                /\ userProfiles' = recordThreatBlocked(userProfiles, msgSender)
           ELSE UNCHANGED <<pendingTransactions, ledger, balance, userProfiles>>
    /\ UNCHANGED <<userNonces, emergencyBlocked, emergencyMode, bypassMode,
                   securityData, authorizedAnalyzers, blacklistedAddresses,
                   now, inCall, apiVars,
                   reportingVars>>

\* ReentrancyGuard: a nonReentrant function called while a nonReentrant
\* function of the same contract is running reverts.
nonReentrant(entered) == ~entered

\* faulty variant: the values array left out of the length comparison
BatchLengthsMatchTargets(targets, datas, values) == Len(targets) = Len(datas)

BatchLengthsMatch(targets, datas, values) ==
    Len(targets) = Len(datas) /\ Len(datas) = Len(values)

RECURSIVE totalValue(_)
totalValue(values) ==
    IF values = <<>> THEN 0 ELSE Head(values) + totalValue(Tail(values))

\* Each item is submitted by this.safeExecute{value: values[i]}(...): an
\* external call of the firewall to itself, made while batchExecute holds the
\* reentrancy guard, so safeExecute's own nonReentrant reverts and the revert
\* undoes the batch.  Only a batch without items gets past the loop; what was
\* sent with it stays in the firewall.
batchExecute(msgSender, targets, datas, values, msgValue) ==
    /\ nonReentrant(FALSE)
    /\ notEmergencyBlocked(msgSender)
    /\ notInEmergencyMode
    /\ BatchLengthsMatch(targets, datas, values)
    /\ Len(targets) <= MAX_BATCH
    /\ msgValue >= totalValue(values)
    /\ \A i \in 1..Len(targets) : nonReentrant(TRUE)
    /\ balance' = balance + msgValue
    /\ UNCHANGED <<pendingTransactions, userNonces, emergencyBlocked,
                   emergencyMode, bypassMode, ledger, registryVars, now,
                   inCall, apiVars,
                   reportingVars>>

emergencyBlockUser(user) ==
    /\ emergencyBlocked' = [emergencyBlocked EXCEPT ![user] = TRUE]
    /\ UNCHANGED <<pendingTransactions, userNonces, emergencyMode, bypassMode,
                   balance, ledger, registryVars, now, inCall, apiVars,
                   reportingVars>>

unblockUser(user) ==
    /\ emergencyBlocked' = [emergencyBlocked EXCEPT ![user] = FALSE]
    /\ UNCHANGED <<pendingTransactions, userNonces, emergencyMode, bypassMode,
                   balance, ledger, registryVars, now, inCall, apiVars,
                   reportingVars>>

toggleEmergencyMode ==
    /\ emergencyMode' = ~emergencyMode
    /\ UNCHANGED <<pendingTransactions, userNonces, emergencyBlocked, bypassMode,
                   balance, ledger, registryVars, now, inCall, apiVars,
                   reportingVars>>

setBypassMode(mode) ==
    /\ bypassMode' = mode
    /\ UNCHANGED <<pendingTransactions, userNonces, emergencyBlocked,
                   emergencyMode, balance, ledger, registryVars, now,
                   inCall, apiVars,
                   reportingVars>>

\* directExecute by the owner: the call is funded from the firewall's whole
\* balance; a call that cannot be funded fails and false is returned.
directExecute(target, data, value, msgValue) ==
    /\ bypassMode
    /\ \E success \in BOOLEAN :
         /\ success => balance + msgValue >= value
         /\ balance' = balance + msgValue - (IF success THEN value ELSE 0)
    /\ UNCHANGED <<pendingTransactions, userNonces, emergencyBlocked,
                   emergencyMode, bypassMode, ledger, registryVars, now,
                   inCall, apiVars,
                   reportingVars>>

withdraw ==
    /\ balance' = 0
    /\ UNCHANGED <<pendingTransactions, userNonces, emergencyBlocked,
                   emergencyMode, bypassMode, ledger, registryVars, now,
                   inCall, apiVars,
                   reportingVars>>

\* ------------------------------------------------------------- registry
\* updateSecurityScore by the deployer, authorized in the constructor.  The
\* fields lastUpdated and riskFactors and the counter transactionsAnalyzed
\* are written here and read by no transition; they are left out.
\* The blacklistedAddresses array is followed for its first ListCap
\* entries: one, and MaxListed more for every further address of the
\* registry.  A push onto the full array is not recorded.
ListCap == 1 + MaxListed * (Cardinality(DOMAIN securityData) - 1)

\* blacklistedAddresses.push(target)
pushed(target) ==
    IF Len(blacklistedAddresses) < ListCap
    THEN Append(blacklistedAddresses, target)
    ELSE blacklistedAddresses

updateSecurityScore(target, riskScore) ==
    /\ authorizedAnalyzers[Owner]
    /\ target # ZERO_ADDRESS
    /\ riskScore <= MAX_RISK_SCORE
    /\ securityData' =
         [securityData EXCEPT
            ![target].riskScore = riskScore,
            ![target].isBlacklisted =
                IF riskScore >= BLACKLIST_THRESHOLD THEN TRUE ELSE @]
    /\ IF riskScore >= BLACKLIST_THRESHOLD /\ ~securityData[target].isBlacklisted
       THEN blacklistedAddresses' = pushed(target)
       ELSE UNCHANGED blacklistedAddresses
    /\ UNCHANGED <<firewallVars, userProfiles, authorizedAnalyzers, now, apiVars,
                   reportingVars>>

\* reportScamAddress by anyone (the reporter's correctReports counter, read
\* by no transition, is left out)
\* the registry's state after reportScamAddress(target, ...), whoever calls
scamReported(target) ==
    /\ target # ZERO_ADDRESS
    /\ securityData[target].reportCount < MaxReports
    /\ securityData' =
         [securityData EXCEPT
            ![target].reportCount = @ + 1,
            ![target].isBlacklisted =
                IF securityData[target].reportCount + 1 >= REPORTS_TO_BLACKLIST
                THEN TRUE ELSE @]
    \* `if (!isBlacklisted(target))` is read after isBlacklisted = true
    /\ IF /\ securityData[target].reportCount + 1 >= REPORTS_TO_BLACKLIST
          /\ ~securityData'[target].isBlacklisted
       THEN blacklistedAddresses' = pushed(target)
       ELSE UNCHANGED blacklistedAddresses

reportScamAddress(target) ==
    /\ scamReported(target)
    /\ UNCHANGED <<firewallVars, userProfiles, authorizedAnalyzers, now, apiVars,
                   reportingVars>>

blacklistAddress(target) ==
    /\ target # ZERO_ADDRESS
    /\ securityData' = [securityData EXCEPT ![target].isBlacklisted = TRUE]
    /\ IF ~securityData[target].isBlacklisted
       THEN blacklistedAddresses' = pushed(target)
       ELSE UNCHANGED blacklistedAddresses
    /\ UNCHANGED <<firewallVars, userProfiles, authorizedAnalyzers, now, apiVars,
                   reportingVars>>

\* faulty variant: the flag cleared, the score kept
whitelistAddressKeepingScore(target) ==
    /\ target # ZERO_ADDRESS
    /\ securityData' = [securityData EXCEPT ![target].isBlacklisted = FALSE]
    /\ UNCHANGED <<firewallVars, userProfiles, authorizedAnalyzers,
                   blacklistedAddresses, now, apiVars,
                   reportingVars>>

whitelistAddress(target) ==
    /\ target # ZERO_ADDRESS
    /\ securityData' = [securityData EXCEPT ![target].isBlacklisted = FALSE,
                                            ![target].riskScore = 0]
    /\ UNCHANGED <<firewallVars, userProfiles, authorizedAnalyzers,
                   blacklistedAddresses, now, apiVars,
                   reportingVars>>

authorizeAnalyzer(analyzer) ==
    /\ analyzer # ZERO_ADDRESS
    /\ authorizedAnalyzers' = [authorizedAnalyzers EXCEPT ![analyzer] = TRUE]
    /\ UNCHANGED <<firewallVars, securityData, userProfiles,
                   blacklistedAddresses, now, apiVars,
                   reportingVars>>

revokeAnalyzer(analyzer) ==
    /\ analyzer # ZERO_ADDRESS
    /\ authorizedAnalyzers' = [authorizedAnalyzers EXCEPT ![analyzer] = FALSE]
    /\ UNCHANGED <<firewallVars, securityData, userProfiles,
                   blacklistedAddresses, now, apiVars,
                   reportingVars>>

\* ----------------------------------------------------------------- time
\* a later block
Tick ==
    /\ now + TimeStep <= MaxTime
    /\ now' = now + TimeStep
    /\ UNCHANGED <<firewallVars, registryVars, apiVars,
                   reportingVars>>

\* -------------------------------------------------- community reporting
\* Token amounts are in whole tokens (10**18 units), times in hours.
MIN_STAKE == 100
MIN_VOTING_STAKE == 50
VOTING_PERIOD == 7 * 24
SUCCESS_REWARD_MULTIPLIER == 150
VOTER_REWARD_SHARE == 20
WithdrawalDelay == 30 * 24      \* `30 days` in emergencyWithdrawStake

\* reporters[a] of an address that never reported
NoReporter ==
    [totalReports |-> 0, successfulReports |-> 0, reputation |-> 0,
     totalStaked |-> 0, isBanned |-> FALSE]

\* keccak256(msg.sender, target, category, description), with the one
\* category and description followed
ReportHash(msgSender, target) == <<msgSender, target>>

\* the entry opened in the history for a report
NoPayout == [finalized |-> 0, withdrawn |-> 0, paid |-> 0]

submitReport(msgSender, target, stake) ==
    /\ target # ZERO_ADDRESS
    /\ target # msgSender
    /\ stake >= MIN_STAKE
    /\ ~reporters[msgSender].isBanned
    /\ ReportHash(msgSender, target) \notin reportExists
    /\ reportCounter < MaxFiled
    /\ LET reportId == reportCounter + 1
       IN  /\ reportCounter' = reportId
           /\ tokenHeld' = tokenHeld + stake          \* transferFrom
           /\ reports' = reports @@
                  (reportId :> [id |-> reportId, reporter |-> msgSender,
                                target |-> target, stake |-> stake,
                                timestamp |-> now, status |-> "Pending",
                                votesFor |-> 0, votesAgainst |-> 0,
                                rewardAmount |-> 0, hasVoted |-> {},
                                voterStakes |-> [u \in Users |-> 0]])
           /\ reportExists' = reportExists \cup {ReportHash(msgSender, target)}
           /\ userReports' = [userReports EXCEPT ![msgSender] = Append(@, reportId)]
           /\ reporters' = [reporters EXCEPT
                               ![msgSender].totalReports = @ + 1,
                               ![msgSender].totalStaked = @ + stake]
           /\ payouts' = payouts @@ (reportId :> NoPayout)
    /\ UNCHANGED <<chainVars, apiVars, rewardMinters>>

voteOnReport(msgSender, reportId, support, stake) ==
    /\ reportId \in DOMAIN reports                 \* report.id != 0
    /\ reports[reportId].status = "UnderReview"
    /\ msgSender \notin reports[reportId].hasVoted
    /\ stake >= MIN_VOTING_STAKE
    /\ now <= reports[reportId].timestamp + VOTING_PERIOD
    /\ tokenHeld' = tokenHeld + stake              \* transferFrom
    /\ reports' = [reports EXCEPT
                      ![reportId].hasVoted = @ \cup {msgSender},
                      ![reportId].voterStakes[msgSender] = stake,
                      ![reportId].votesFor = IF support THEN @ + stake ELSE @,
                      ![reportId].votesAgainst = IF support THEN @ ELSE @ + stake]
    /\ UNCHANGED <<chainVars, apiVars, reporters, userReports, reportExists,
                   reportCounter, rewardMinters, payouts>>

\* onlyOwner
reviewReport(reportId) ==
    /\ reportId \in DOMAIN reports
    /\ reports[reportId].status = "Pending"
    /\ reports' = [reports EXCEPT ![reportId].status = "UnderReview"]
    /\ UNCHANGED <<chainVars, apiVars, reporters, userReports, reportExists,
                   reportCounter, tokenHeld, rewardMinters, payouts>>

\* the transfers of _distributeVoterRewards(reportId, totalRewards), made
\* to msgSender: one for every other report of the same reporter on which
\* msgSender has voted
RECURSIVE VoterShares(_, _, _, _)
VoterShares(ids, reportId, totalRewards, msgSender) ==
    IF ids = <<>> THEN 0
    ELSE LET currentReport == reports[Head(ids)]
             voterShare == (currentReport.voterStakes[msgSender] * totalRewards)
                               \div reports[reportId].votesFor
         IN  (IF /\ Head(ids) # reportId
                 /\ msgSender \in currentReport.hasVoted
                 /\ currentReport.votesFor > 0
              THEN voterShare ELSE 0)
             + VoterShares(Tail(ids), reportId, totalRewards, msgSender)

\* the tokens _distributeRewards(reportId) transfers out
DistributedRewards(reportId, msgSender) ==
    LET report == reports[reportId]
        reporterReward == (report.stake * SUCCESS_REWARD_MULTIPLIER) \div 100
        totalVoterRewards == (report.stake * VOTER_REWARD_SHARE) \div 100
    IN  reporterReward
        + (IF report.votesFor > 0
           THEN VoterShares(userReports[report.reporter], reportId,
                            totalVoterRewards, msgSender)
           ELSE 0)

\* faulty variant: a report finalized whatever its status
finalizableAnyStatus(reportId) == reportId \in DOMAIN reports

\* the status test of finalizeReport
finalizable(reportId) ==
    /\ reportId \in DOMAIN reports
    /\ reports[reportId].status = "UnderReview"

\* A token transfer reverts the call when CommunityReporting holds less
\* than the amount; rewardValidReport reverts unless CommunityReporting
\* is a reward minter.
finalizeReport(msgSender, reportId) ==
    /\ finalizable(reportId)
    /\ now > reports[reportId].timestamp + VOTING_PERIOD
    /\ LET report == reports[reportId]
           isVerified == report.votesFor > report.votesAgainst
           rewards == DistributedRewards(reportId, msgSender)
           refund == report.stake \div 2
       IN  IF isVerified
           THEN /\ scamReported(report.target)
                /\ rewardMinters[Reporting]
                /\ tokenHeld >= rewards
                /\ tokenHeld' = tokenHeld - rewards
                /\ reports' = [reports EXCEPT
                      ![reportId].status = "Verified",
                      ![reportId].rewardAmount =
                          (report.stake * SUCCESS_REWARD_MULTIPLIER) \div 100]
                /\ reporters' = [reporters EXCEPT
                      ![report.reporter].successfulReports = @ + 1,
                      ![report.reporter].reputation = @ + 10]
                /\ payouts' = [payouts EXCEPT ![reportId].finalized = @ + 1,
                                              ![reportId].paid = @ + rewards]
           ELSE /\ tokenHeld >= refund
                /\ tokenHeld' = tokenHeld - refund
                /\ reports' = [reports EXCEPT ![reportId].status = "Rejected"]
                /\ payouts' = [payouts EXCEPT ![reportId].finalized = @ + 1,
                                              ![reportId].paid = @ + refund]
                /\ UNCHANGED <<reporters, securityData, blacklistedAddresses>>
    /\ UNCHANGED <<firewallVars, userProfiles, authorizedAnalyzers, now, apiVars,
                   userReports, reportExists, reportCounter, rewardMinters>>

\* onlyOwner
disputeReport(reportId) ==
    /\ reportId \in DOMAIN reports
    /\ reports[reportId].status \in {"Verified", "Rejected"}
    /\ reports' = [reports EXCEPT ![reportId].status = "Disputed"]
    /\ UNCHANGED <<chainVars, apiVars, reporters, userReports, reportExists,
                   reportCounter, tokenHeld, rewardMinters, payouts>>

\* The call leaves the report as it found it: status and stake are only read.
emergencyWithdrawStake(msgSender, reportId) ==
    /\ reportId \in DOMAIN reports
    /\ reports[reportId].reporter = msgSender
    /\ reports[reportId].status = "Disputed"
    /\ now > reports[reportId].timestamp + WithdrawalDelay
    /\ LET refundAmount == reports[reportId].stake \div 2
       IN  /\ tokenHeld >= refundAmount
           /\ tokenHeld' = tokenHeld - refundAmount
           /\ payouts' = [payouts EXCEPT ![reportId].withdrawn = @ + 1,
                                         ![reportId].paid = @ + refundAmount]
    /\ UNCHANGED <<chainVars, apiVars, reports, reporters, userReports,
                   reportExists, reportCounter, rewardMinters>>

\* SecurityToken.addRewardMinter(minter), onlyOwner
addRewardMinter(minter) ==
    /\ rewardMinters' = [rewardMinters EXCEPT ![minter] = TRUE]
    /\ UNCHANGED <<chainVars, apiVars, reports, reporters, userReports,
                   reportExists, reportCounter, tokenHeld, payouts>>

\* block.timestamp advancing by eight days
Weeks ==
    /\ now + 8 * 24 <= MaxReportTime
    /\ now' = now + 8 * 24
    /\ UNCHANGED <<firewallVars, registryVars, apiVars, reportingVars>>

\* ------------------------------------------------------------ risk API
\* A value that may be missing (null, undefined, '') is a sequence of at most
\* one item.
null == <<>>

\* config.riskThresholds
config ==
    [riskThresholds |-> [low |-> 25, medium |-> 50, high |-> 75, critical |-> 90],
     timeouts |-> [simulation |-> 10000, aiAnalysis |-> 15000,
                   totalAnalysis |-> 30000]]

\* Math.min
Min(a, b) == IF a < b THEN a ELSE b

\* transaction.data is a hex string.  It is kept as what the analysis reads
\* of it: its length in characters, data.slice(0, 10) and data.slice(74, 138),
\* the latter as a sequence of hex digits.
HexData(length, selector, word) ==
    [length |-> length, selector |-> selector, word |-> word]

\* transaction.data !== '0x'
NotEmptyData(data) == ~(data.length = 2 /\ data.selector = "0x")

\* data.startsWith(selector), selector being ten characters long
startsWith(data, selector) == data.length >= 10 /\ data.selector = selector

\* word.endsWith(digit)
endsWith(word, digit) == Len(word) > 0 /\ word[Len(word)] = digit

\* 'f'.repeat(64)
maxUint256 == [i \in 1..64 |-> "f"]

\* parseInt(transaction.value) / 1e18 > eth, transaction.value counted in
\* finney (1e15 wei)
valueInEthAbove(transaction, eth) == transaction.value > eth * 1000

calculateGasRiskScore(gasUsed, transaction) ==
    LET byUsage == IF gasUsed > 500000 THEN 20
                   ELSE IF gasUsed > 200000 THEN 10
                   ELSE 0
        tooLow == IF /\ NotEmptyData(transaction.data)
                     /\ transaction.data.length > 10
                     /\ gasUsed < 50000
                  THEN 15 ELSE 0
    IN  byUsage + tooLow

suspiciousFunctions == {"0xa9059cbb", "0x095ea7b3", "0xa22cb465"}

\* the `else if (valueInEth > 100)` follows `if (valueInEth > 10)` in the code
calculateTransactionRiskScore(transaction) ==
    LET byValue == IF valueInEthAbove(transaction, 10) THEN 10
                   ELSE IF valueInEthAbove(transaction, 100) THEN 20
                   ELSE 0
        byData == IF NotEmptyData(transaction.data) /\ transaction.data.length > 1000
                  THEN 15 ELSE 0
        bySelector == IF /\ transaction.data.length >= 10
                         /\ transaction.data.selector \in suspiciousFunctions
                      THEN 5 ELSE 0
    IN  byValue + byData + bySelector

\* faulty variant: the sum returned without the cap
calculateRiskScoreUncapped(factors) ==
    (IF factors.isKnownScam THEN 90 ELSE 0)
    + (IF factors.hasSuspiciousCode THEN 60 ELSE 0)
    + (IF factors.hasUnlimitedApprovals THEN 40 ELSE 0)
    + (IF factors.isNewContract THEN 30 ELSE 0)
    + (IF factors.simulationFailed THEN 50 ELSE 0)
    + factors.aiRiskScore
    + calculateGasRiskScore(factors.gasUsage, factors.transaction)
    + calculateTransactionRiskScore(factors.transaction)

\* faulty variant: the audit sub-score replacing the terms before it
calculateRiskScoreOverwritten(factors) ==
    Min(factors.aiRiskScore
        + calculateGasRiskScore(factors.gasUsage, factors.transaction)
        + calculateTransactionRiskScore(factors.transaction), 100)

calculateRiskScore(factors) ==
    LET score1 == IF factors.isKnownScam THEN 90 ELSE 0
        score2 == IF factors.hasSuspiciousCode THEN score1 + 60 ELSE score1
        score3 == IF factors.hasUnlimitedApprovals THEN score2 + 40 ELSE score2
        score4 == IF factors.isNewContract THEN score3 + 30 ELSE score3
        score5 == IF factors.simulationFailed THEN score4 + 50 ELSE score4
        score6 == score5 + factors.aiRiskScore
        gasRiskScore == calculateGasRiskScore(factors.gasUsage, factors.transaction)
        score7 == score6 + gasRiskScore
        transactionRiskScore == calculateTransactionRiskScore(factors.transaction)
        score == score7 + transactionRiskScore
    IN  Min(score, 100)

\* TransactionAnalyzer.checkScamDatabase
checkScamDatabase(scamInfo) ==
    [isScam |-> IF scamInfo # null THEN scamInfo[1].riskLevel > 50 ELSE FALSE,
     riskLevel |-> IF scamInfo # null THEN scamInfo[1].riskLevel ELSE 0]

\* faulty variant: the answer AIService gives when its own request fails,
\* taken as the default
getDefaultAIAnalysisConservative ==
    [contractRisk |-> 25, riskFactors |-> <<"AI analysis failed">>]

getDefaultAIAnalysis == [contractRisk |-> 0, riskFactors |-> <<>>]

\* faulty variant: the AI service asked from a bare selector on
skipsAIBelowSelector(transaction) ==
    ~NotEmptyData(transaction.data) \/ transaction.data.length < 10

\* TransactionAnalyzer.getAIAnalysis returns the default without calling the
\* AI service: `transaction.data === '0x' || transaction.data.length <= 10`
skipsAI(transaction) ==
    ~NotEmptyData(transaction.data) \/ transaction.data.length <= 10

\* TransactionAnalyzer.getAIAnalysis: the AI service is asked only about
\* transactions that carry more than a selector
getAIAnalysis(transaction, aiReply) ==
    IF skipsAI(transaction)
    THEN getDefaultAIAnalysis
    ELSE aiReply

\* faulty variant: only setApprovalForAll looked at
checkUnlimitedApprovalsForAllOnly(transaction) ==
    startsWith(transaction.data, "0xa22cb465")
    /\ endsWith(transaction.data.word, "1")

checkUnlimitedApprovals(transaction) ==
    IF startsWith(transaction.data, "0x095ea7b3")
    THEN transaction.data.word = maxUint256
    ELSE IF startsWith(transaction.data, "0xa22cb465")
    THEN endsWith(transaction.data.word, "1")
    ELSE FALSE

\* TransactionAnalyzer.isNewContract; createdAt kept as the days gone since
isNewContract(contractInfo) ==
    IF contractInfo.daysSinceCreation = null THEN FALSE
    ELSE contractInfo.daysSinceCreation[1] < 7

\* simulation.error?.includes('revert')
includesRevert(simulation) == simulation.error = "execution reverted"

Warning(type, severity) == [type |-> type, severity |-> severity]

\* the warning a component's answer gives rise to
warningOf(source, analysisData) ==
    IF source = "scam" /\ analysisData.isKnownScam
    THEN <<Warning("SCAM_ADDRESS", "CRITICAL")>>
    ELSE IF /\ source = "simulation"
            /\ ~analysisData.simulation.success
            /\ includesRevert(analysisData.simulation)
    THEN <<Warning("HONEYPOT", "HIGH")>>
    ELSE IF /\ source = "ai"
            /\ analysisData.hasSuspiciousCode
            /\ Len(analysisData.ai.riskFactors) > 0
    THEN <<Warning("SUSPICIOUS_CODE", "MEDIUM")>>
    ELSE IF source = "contract" /\ analysisData.isNewContract
    THEN <<Warning("SUSPICIOUS_CODE", "LOW")>>
    ELSE <<>>

RECURSIVE warningsInOrder(_, _)
warningsInOrder(order, analysisData) ==
    IF order = <<>> THEN <<>>
    ELSE warningOf(Head(order), analysisData)
         \o warningsInOrder(Tail(order), analysisData)

\* faulty variant: each warning pushed when its component settles
generateWarningsAsSettled(analysisData) ==
    (IF analysisData.hasUnlimitedApprovals
     THEN <<Warning("UNLIMITED_APPROVAL", "HIGH")>> ELSE <<>>)
    \o warningsInOrder(settleOrder, analysisData)

generateWarnings(analysisData) ==
    (IF analysisData.isKnownScam
     THEN <<Warning("SCAM_ADDRESS", "CRITICAL")>> ELSE <<>>)
    \o (IF ~analysisData.simulation.success /\ includesRevert(analysisData.simulation)
        THEN <<Warning("HONEYPOT", "HIGH")>> ELSE <<>>)
    \o (IF analysisData.hasUnlimitedApprovals
        THEN <<Warning("UNLIMITED_APPROVAL", "HIGH")>> ELSE <<>>)
    \o (IF analysisData.hasSuspiciousCode /\ Len(analysisData.ai.riskFactors) > 0
        THEN <<Warning("SUSPICIOUS_CODE", "MEDIUM")>> ELSE <<>>)
    \o (IF analysisData.isNewContract
        THEN <<Warning("SUSPICIOUS_CODE", "LOW")>> ELSE <<>>)

\* faulty variant: the levels of the READMEs, each one threshold lower
getRiskLevelShifted(riskScore) ==
    IF riskScore >= config.riskThresholds.high THEN "CRITICAL"
    ELSE IF riskScore >= config.riskThresholds.medium THEN "HIGH"
    ELSE IF riskScore >= config.riskThresholds.low THEN "MEDIUM"
    ELSE "LOW"

getRiskLevel(riskScore) ==
    IF riskScore >= config.riskThresholds.critical THEN "CRITICAL"
    ELSE IF riskScore >= config.riskThresholds.high THEN "HIGH"
    ELSE IF riskScore >= config.riskThresholds.medium THEN "MEDIUM"
    ELSE "LOW"

\* faulty variant: RiskScoringService.getRecommendation, which has no
\* warnings to look at, used in place of the analyzer's
getRecommendationByScore(riskScore, warnings) ==
    IF riskScore >= config.riskThresholds.critical THEN "BLOCK"
    ELSE IF riskScore >= config.riskThresholds.medium THEN "CAUTION"
    ELSE "PROCEED"

\* faulty variant: CAUTION from the low threshold on, as in the READMEs
getRecommendationFromLow(riskScore, warnings) ==
    IF \/ \E i \in 1..Len(warnings) : warnings[i].severity = "CRITICAL"
       \/ riskScore >= config.riskThresholds.critical
    THEN "BLOCK"
    ELSE IF riskScore >= config.riskThresholds.low THEN "CAUTION"
    ELSE "PROCEED"

\* TransactionAnalyzer.getRecommendation
getRecommendation(riskScore, warnings) ==
    LET hasCriticalWarnings ==
            \E i \in 1..Len(warnings) : warnings[i].severity = "CRITICAL"
    IN  IF hasCriticalWarnings \/ riskScore >= config.riskThresholds.critical
        THEN "BLOCK"
        ELSE IF riskScore >= config.riskThresholds.medium THEN "CAUTION"
        ELSE "PROCEED"

\* parseInt(simulation.gasUsed || '0')
parseGasUsed(simulation) ==
    IF simulation.gasUsed = null THEN 0 ELSE simulation.gasUsed[1]

\* The factors analyzeTransaction hands to calculateRiskScore.
riskFactorsOf(transaction, replies) ==
    LET simulation == replies.simulation
        ai == getAIAnalysis(transaction, replies.ai)
    IN  [isKnownScam |-> checkScamDatabase(replies.scamInfo).isScam,
         hasSuspiciousCode |-> Len(ai.riskFactors) > 0,
         hasUnlimitedApprovals |-> checkUnlimitedApprovals(transaction),
         isNewContract |-> IF replies.contractInfo # null
                           THEN isNewContract(replies.contractInfo[1]) ELSE FALSE,
         simulationFailed |-> ~simulation.success,
         aiRiskScore |-> ai.contractRisk,
         gasUsage |-> parseGasUsed(simulation),
         transaction |-> transaction]

\* TransactionAnalyzer.analyzeTransaction, the four components having
\* answered `replies`
analyzeTransaction(transaction, replies) ==
    LET factors == riskFactorsOf(transaction, replies)
        ai == getAIAnalysis(transaction, replies.ai)
        warnings == generateWarnings(
                        [isKnownScam |-> factors.isKnownScam,
                         hasSuspiciousCode |-> factors.hasSuspiciousCode,
                         hasUnlimitedApprovals |-> factors.hasUnlimitedApprovals,
                         isNewContract |-> factors.isNewContract,
                         simulation |-> replies.simulation,
                         ai |-> ai])
        riskScore == calculateRiskScore(factors)
    IN  [riskScore |-> riskScore,
         riskLevel |-> getRiskLevel(riskScore),
         warnings |-> warnings,
         analysis |-> [isKnownScam |-> factors.isKnownScam,
                       hasSuspiciousCode |-> factors.hasSuspiciousCode,
                       hasUnlimitedApprovals |-> factors.hasUnlimitedApprovals,
                       isNewContract |-> factors.isNewContract,
                       simulationResult |-> replies.simulation,
                       aiAnalysis |-> ai],
         recommendation |-> getRecommendation(riskScore, warnings)]

\* the transactions analysed
DataInputs ==
    {HexData(2, "0x", <<>>),
     HexData(10, "0xa9059cbb", <<>>),
     HexData(138, "0xa9059cbb", [i \in 1..64 |-> "0"]),
     HexData(138, "0x095ea7b3", maxUint256),
     HexData(138, "0x095ea7b3", [i \in 1..64 |-> IF i = 64 THEN "1" ELSE "0"]),
     HexData(138, "0xa22cb465", [i \in 1..64 |-> IF i = 64 THEN "1" ELSE "0"]),
     HexData(1002, "0x12345678", [i \in 1..64 |-> "0"]),
     HexData(138, "0x095ea7b3", [i \in 1..64 |-> "F"]),
     HexData(138, "0xa22cb465", [i \in 1..64 |-> IF i >= 63 THEN "1" ELSE "0"]),
     HexData(138, "0xa22cb465", [i \in 1..64 |-> "0"]),
     HexData(138, "0x12345678", maxUint256)}

ValueInputs == {0, 1 * 1000, 10 * 1000, 11 * 1000, 100 * 1000, 101 * 1000}

Transactions ==
    {[to |-> to, data |-> data, value |-> value] :
        to \in Targets, data \in DataInputs, value \in ValueInputs}

\* the answers of the simulation, the scam database, the contract service
\* and the AI service
SimulationReplies ==
    {[success |-> TRUE, gasUsed |-> <<21000>>, error |-> ""],
     [success |-> TRUE, gasUsed |-> <<100000>>, error |-> ""],
     [success |-> TRUE, gasUsed |-> <<250000>>, error |-> ""],
     [success |-> TRUE, gasUsed |-> <<600000>>, error |-> ""],
     [success |-> FALSE, gasUsed |-> null, error |-> "execution reverted"],
     [success |-> FALSE, gasUsed |-> null, error |-> "out of gas"]}

ScamReplies == {null, <<[riskLevel |-> 50]>>, <<[riskLevel |-> 90]>>}

\* SimulationService.simulateTransaction as shipped: a mock success
mockSimulation == [success |-> TRUE, gasUsed |-> <<21000>>, error |-> ""]

\* AIService.analyzeContract as shipped: a mock analysis
mockAnalysis == [contractRisk |-> 0, riskFactors |-> <<>>]

\* ContractService.fetchContractFromBlockchain as shipped: createdAt is
\* new Date(), the moment of the call
fetchContractFromBlockchain == [daysSinceCreation |-> <<0>>]

\* the answers of the components as shipped, the scam database holding no
\* entry for the recipient
shippedReplies ==
    [simulation |-> mockSimulation, scamInfo |-> null,
     contractInfo |-> <<fetchContractFromBlockchain>>, ai |-> mockAnalysis]

ContractReplies ==
    {null, <<[daysSinceCreation |-> null]>>, <<[daysSinceCreation |-> <<6>>]>>,
     <<[daysSinceCreation |-> <<7>>]>>, <<fetchContractFromBlockchain>>}

AIReplies ==
    {[contractRisk |-> 0, riskFactors |-> <<>>],
     [contractRisk |-> 45, riskFactors |-> <<>>],
     [contractRisk |-> 25, riskFactors |-> <<"AI analysis failed">>],
     [contractRisk |-> 100, riskFactors |-> <<"hidden mint", "owner drain">>]}

ServiceReplies ==
    [simulation : SimulationReplies, scamInfo : ScamReplies,
     contractInfo : ContractReplies, ai : AIReplies]

\* no analysis made yet
NoAnalysis == null

\* POST /transaction: the transaction analysed and its RiskAnalysis returned
Analyze ==
    /\ riskAnalysis = NoAnalysis
    /\ riskAnalysis' = <<analyzeTransaction(txRequest, serviceReplies)>>
    /\ UNCHANGED <<txRequest, serviceReplies, chainVars, cacheVars, reportingVars, collectVars, batchVars>>

\* the four components analyzeTransaction starts in parallel
Sources == {"simulation", "scam", "contract", "ai"}

getDefaultSimulationResult ==
    [success |-> TRUE, gasUsed |-> <<21000>>, error |-> ""]

\* faulty variant: a simulation that raised taken for a failed transaction
settledRepliesFailedSimulation(status, replies) ==
    [simulation |-> IF status["simulation"] = "fulfilled" THEN replies.simulation
                    ELSE [success |-> FALSE, gasUsed |-> null,
                          error |-> "Simulation failed"],
     scamInfo |-> IF status["scam"] = "fulfilled" THEN replies.scamInfo ELSE null,
     contractInfo |-> IF status["contract"] = "fulfilled"
                      THEN replies.contractInfo ELSE null,
     ai |-> IF status["ai"] = "fulfilled" THEN replies.ai ELSE getDefaultAIAnalysis]

\* What analyzeTransaction takes from the settled components: the value of a
\* fulfilled one; for one that raised, the default simulation result, no scam
\* entry, no contract, the default AI analysis.
settledReplies(status, replies) ==
    [simulation |-> IF status["simulation"] = "fulfilled" THEN replies.simulation
                    ELSE getDefaultSimulationResult,
     scamInfo |-> IF status["scam"] = "fulfilled" THEN replies.scamInfo ELSE null,
     contractInfo |-> IF status["contract"] = "fulfilled"
                      THEN replies.contractInfo ELSE null,
     ai |-> IF status["ai"] = "fulfilled" THEN replies.ai ELSE getDefaultAIAnalysis]

\* A component settles: it answers (fulfilled) or raises (rejected).  The AI
\* service does neither when it is not asked.
Settle(source, outcome) ==
    /\ riskAnalysis = NoAnalysis
    /\ sourceStatus[source] = "pending"
    /\ (source = "ai" /\ skipsAI(txRequest)) => outcome = "fulfilled"
    /\ sourceStatus' = [sourceStatus EXCEPT ![source] = outcome]
    /\ settleOrder' = Append(settleOrder, source)
    /\ UNCHANGED <<txRequest, serviceReplies, riskAnalysis, elapsed,
                   chainVars, cacheVars, reportingVars, batchVars>>

\* Promise.allSettled resolves once every component has settled; the rest of
\* analyzeTransaction runs and the analysis is returned.
Return ==
    /\ riskAnalysis = NoAnalysis
    /\ \A source \in Sources : sourceStatus[source] # "pending"
    /\ riskAnalysis' = <<analyzeTransaction(
                            txRequest, settledReplies(sourceStatus, serviceReplies))>>
    /\ UNCHANGED <<txRequest, serviceReplies, collectVars, chainVars, cacheVars, reportingVars, batchVars>>

\* Time passes while components are out.  The HTTP calls of the simulation
\* and of the AI service carry config.timeouts.simulation and
\* config.timeouts.aiAnalysis: past them the call has settled.  The queries
\* of the scam database and of the contract service carry no timeout, and
\* config.timeouts.totalAnalysis is read nowhere.
Elapse ==
    /\ riskAnalysis = NoAnalysis
    /\ elapsed + config.timeouts.simulation <= MaxElapsed
    /\ elapsed' = elapsed + config.timeouts.simulation
    /\ elapsed' > config.timeouts.simulation => sourceStatus["simulation"] # "pending"
    /\ elapsed' > config.timeouts.aiAnalysis => sourceStatus["ai"] # "pending"
    /\ UNCHANGED <<txRequest, serviceReplies, riskAnalysis, sourceStatus,
                   settleOrder, chainVars, cacheVars, reportingVars, batchVars>>

\* ------------------------------------------------------- specification
\* The state after deployment: both contracts constructed, the firewall
\* authorized as analyzer of the registry by the deployment script.
Init ==
    /\ pendingTransactions = <<>>
    /\ userNonces = [u \in Users |-> 0]
    /\ emergencyBlocked = [u \in Users |-> FALSE]
    /\ emergencyMode = FALSE
    /\ bypassMode = FALSE
    /\ balance = 0
    /\ inCall = null
    /\ securityData = [t \in Targets |->
                         [riskScore |-> 0, isBlacklisted |-> FALSE, reportCount |-> 0]]
    /\ userProfiles = [u \in Users |-> [threatsBlocked |-> 0, reputationScore |-> 0]]
    /\ authorizedAnalyzers = [a \in {Owner, Firewall} |-> TRUE]
    /\ blacklistedAddresses = <<>>
    /\ now = 1
    /\ ledger = <<>>
    /\ txRequest = NoAnalysis
    /\ serviceReplies = NoAnalysis
    /\ riskAnalysis = NoAnalysis
    /\ sourceStatus = null
    /\ settleOrder = null
    /\ elapsed = 0
    /\ batchRequest = null
    /\ batchFinished = null
    /\ batchResponse = null
    /\ contract_info = [address \in CacheAddresses |-> null]
    /\ fetches = [address \in CacheAddresses |-> 0]
    /\ reports = <<>>
    /\ reporters = [u \in Users |-> NoReporter]
    /\ userReports = [u \in Users |-> <<>>]
    /\ reportExists = {}
    /\ reportCounter = 0
    /\ tokenHeld = 0
    /\ rewardMinters = [a \in {Owner, Reporting} |-> a = Owner]
    /\ payouts = <<>>

SubmitAny ==
    \E msgSender \in Senders, target \in Targets \cup {ZERO_ADDRESS},
       data \in Payloads, value \in Values, extra \in 0..1 :
        safeExecute(msgSender, target, data, value, value + extra)

Submit == TotalTx < MaxTx /\ SubmitAny

SubmitFew == TotalTx < MaxAdmissions /\ SubmitAny

Release == \E msgSender \in Users, txId \in TxIds :
               executeQueuedTransaction(msgSender, txId)

Cancel == \E msgSender \in Users, txId \in TxIds : emergencyCancel(msgSender, txId)

Bypass ==
    \/ \E mode \in BOOLEAN : setBypassMode(mode)
    \/ \E target \in Targets, data \in Payloads, value \in Values :
          directExecute(target, data, value, 0)

Withdraw == withdraw

Emergency ==
    \/ \E user \in Senders : emergencyBlockUser(user)
    \/ \E user \in Senders : unblockUser(user)
    \/ toggleEmergencyMode

Scores ==
    \/ \E target \in Targets \cup {ZERO_ADDRESS}, riskScore \in ScoreInputs :
          updateSecurityScore(target, riskScore)
    \/ \E target \in Targets : blacklistAddress(target)
    \/ \E target \in Targets : whitelistAddress(target)

Reports == \E target \in Targets : reportScamAddress(target)

Analyzers == authorizeAnalyzer(Firewall) \/ revokeAnalyzer(Firewall)

\* The admission controller and the registry transitions that change what it
\* reads.  Left to SpecAll: the emergency switches and the analyzer
\* authorization, which only disable transitions taken here, and
\* reportScamAddress, a second way to the blacklist flag blacklistAddress sets.
Next == Submit \/ Release \/ Cancel \/ Bypass \/ Withdraw \/ Scores \/ Tick

Spec == Init /\ [][Next]_vars

\* The same transitions around at most MaxAdmissions admissions.
NextAdmission ==
    SubmitFew \/ Release \/ Cancel \/ Bypass \/ Withdraw \/ Scores \/ Tick

SpecAdmission == Init /\ [][NextAdmission]_vars

\* the array [x, ..., x] of n items
Repeat(x, n) == [i \in 1..n |-> x]

\* the batches sent, the invalid ones included
BatchInputs ==
    {[targets |-> Repeat(target, n), datas |-> Repeat(data, m),
      values |-> Repeat(value, k), msgValue |-> msgValue] :
        target \in Targets, data \in Payloads, value \in Values,
        n \in BatchSizes, m \in BatchSizes, k \in BatchSizes,
        msgValue \in {0, MaxValue, MAX_BATCH * MaxValue}}

Batch ==
    \E msgSender \in Senders, b \in BatchInputs :
        /\ balance + b.msgValue <= BalanceCap
        /\ batchExecute(msgSender, b.targets, b.datas, b.values, b.msgValue)

\* Batch submission next to single submissions, with the emergency switches
\* that guard both.
NextBatch == SubmitFew \/ Batch \/ Emergency \/ Scores \/ Withdraw

SpecBatch == Init /\ [][NextBatch]_vars

\* The API on its own: a transaction arrives, the components answer, the
\* analysis is returned.
InitAnalysis ==
    /\ txRequest \in Transactions
    /\ serviceReplies \in ServiceReplies
    /\ riskAnalysis = NoAnalysis
    /\ sourceStatus = null
    /\ settleOrder = null
    /\ elapsed = 0
    /\ batchRequest = null
    /\ batchFinished = null
    /\ batchResponse = null
    /\ contract_info = [address \in CacheAddresses |-> null]
    /\ fetches = [address \in CacheAddresses |-> 0]
    /\ reports = <<>>
    /\ reporters = [u \in Users |-> NoReporter]
    /\ userReports = [u \in Users |-> <<>>]
    /\ reportExists = {}
    /\ reportCounter = 0
    /\ tokenHeld = 0
    /\ rewardMinters = [a \in {Owner, Reporting} |-> a = Owner]
    /\ payouts = <<>>
    /\ pendingTransactions = <<>>
    /\ userNonces = [u \in Users |-> 0]
    /\ emergencyBlocked = [u \in Users |-> FALSE]
    /\ emergencyMode = FALSE
    /\ bypassMode = FALSE
    /\ balance = 0
    /\ inCall = null
    /\ securityData = [t \in Targets |->
                         [riskScore |-> 0, isBlacklisted |-> FALSE, reportCount |-> 0]]
    /\ userProfiles = [u \in Users |-> [threatsBlocked |-> 0, reputationScore |-> 0]]
    /\ authorizedAnalyzers = [a \in {Owner, Firewall} |-> TRUE]
    /\ blacklistedAddresses = <<>>
    /\ now = 1
    /\ ledger = <<>>

NextAnalysis == Analyze

SpecAnalysis == InitAnalysis /\ [][NextAnalysis]_vars

\* the requests followed through the settling of the components
CollectTransactions ==
    {[to |-> "t1", data |-> HexData(2, "0x", <<>>), value |-> 1 * 1000],
     [to |-> "t1", data |-> HexData(138, "0x095ea7b3", maxUint256), value |-> 0]}

CollectReplies ==
    [simulation : {[success |-> TRUE, gasUsed |-> <<250000>>, error |-> ""],
                   [success |-> FALSE, gasUsed |-> null,
                    error |-> "execution reverted"]},
     scamInfo : {null, <<[riskLevel |-> 90]>>},
     contractInfo : {null, <<[daysSinceCreation |-> <<6>>]>>},
     ai : {[contractRisk |-> 0, riskFactors |-> <<>>],
           [contractRisk |-> 100, riskFactors |-> <<"hidden mint", "owner drain">>]}]

\* analyzeTransaction has just started the four components
InitCollect ==
    /\ txRequest \in CollectTransactions
    /\ serviceReplies \in CollectReplies
    /\ riskAnalysis = NoAnalysis
    /\ sourceStatus = [source \in Sources |-> "pending"]
    /\ settleOrder = <<>>
    /\ elapsed = 0
    /\ batchRequest = null
    /\ batchFinished = null
    /\ batchResponse = null
    /\ contract_info = [address \in CacheAddresses |-> null]
    /\ fetches = [address \in CacheAddresses |-> 0]
    /\ reports = <<>>
    /\ reporters = [u \in Users |-> NoReporter]
    /\ userReports = [u \in Users |-> <<>>]
    /\ reportExists = {}
    /\ reportCounter = 0
    /\ tokenHeld = 0
    /\ rewardMinters = [a \in {Owner, Reporting} |-> a = Owner]
    /\ payouts = <<>>
    /\ pendingTransactions = <<>>
    /\ userNonces = [u \in Users |-> 0]
    /\ emergencyBlocked = [u \in Users |-> FALSE]
    /\ emergencyMode = FALSE
    /\ bypassMode = FALSE
    /\ balance = 0
    /\ inCall = null
    /\ securityData = [t \in Targets |->
                         [riskScore |-> 0, isBlacklisted |-> FALSE, reportCount |-> 0]]
    /\ userProfiles = [u \in Users |-> [threatsBlocked |-> 0, reputationScore |-> 0]]
    /\ authorizedAnalyzers = [a \in {Owner, Firewall} |-> TRUE]
    /\ blacklistedAddresses = <<>>
    /\ now = 1
    /\ ledger = <<>>

Settles ==
    \E source \in Sources, outcome \in {"fulfilled", "rejected"} :
        Settle(source, outcome)

NextCollect == Settles \/ Return \/ Elapse

SpecCollect == InitCollect /\ [][NextCollect]_vars

\* --------------------------------------------------------- batch analysis
\* /^0x[a-fA-F0-9]{40}$/.test(address): the addresses of the right form
WellFormedAddresses == {"t1", "t2", "t3", "alice"}

isValidAddress(address) == address \in WellFormedAddresses

\* AnalysisController.isValidTransaction; the typeof tests hold of every
\* record with the four fields
isValidTransaction(transaction) ==
    /\ {"to", "from", "value", "data"} \subseteq DOMAIN transaction
    /\ isValidAddress(transaction.to)
    /\ isValidAddress(transaction.from)

\* the checks analyzeBatchTransactions makes before any analysis
batchAccepted(transactions) ==
    /\ Len(transactions) # 0
    /\ ~(Len(transactions) > MAX_BATCH_TRANSACTIONS)
    /\ \A i \in 1..Len(transactions) : isValidTransaction(transactions[i])

\* what the four components answer about a recipient
repliesAbout(to) ==
    [simulation |-> [success |-> TRUE, gasUsed |-> <<21000>>, error |-> ""],
     scamInfo |-> IF to = "t2" THEN <<[riskLevel |-> 90]>> ELSE null,
     contractInfo |-> IF to = "t3" THEN <<[daysSinceCreation |-> <<6>>]>> ELSE null,
     ai |-> [contractRisk |-> 0, riskFactors |-> <<>>]]

\* faulty variant: the results in the order the analyses finished
PromiseAllAsFinished(finished) ==
    [k \in 1..Len(finished) |-> finished[k].analysis]

\* Promise.all: the fulfilled values in the order of the input array
PromiseAll(finished) ==
    [i \in 1..Len(finished) |->
        finished[CHOOSE k \in 1..Len(finished) : finished[k].position = i].analysis]

\* analyzeBatchTransactions throws APIError 400: no array element, more than
\* ten, or an invalid transaction
RejectBatch ==
    /\ batchResponse = null
    /\ ~batchAccepted(batchRequest)
    /\ batchResponse' = <<[status |-> 400, success |-> FALSE, data |-> <<>>]>>
    /\ UNCHANGED <<batchRequest, batchFinished, txRequest, serviceReplies,
                   riskAnalysis, collectVars, chainVars, cacheVars, reportingVars>>

\* faulty variant: the failsafe analysis taken for a high risk
getFailsafeAnalysisBlocking ==
    [riskScore |-> 75,
     riskLevel |-> "HIGH",
     warnings |-> <<Warning("SUSPICIOUS_CODE", "MEDIUM")>>,
     analysis |-> [isKnownScam |-> FALSE,
                   hasSuspiciousCode |-> FALSE,
                   hasUnlimitedApprovals |-> FALSE,
                   isNewContract |-> FALSE,
                   simulationResult |-> getDefaultSimulationResult,
                   aiAnalysis |-> getDefaultAIAnalysis],
     recommendation |-> "BLOCK"]

\* TransactionAnalyzer.getFailsafeAnalysis
getFailsafeAnalysis ==
    [riskScore |-> 50,
     riskLevel |-> "MEDIUM",
     warnings |-> <<Warning("SUSPICIOUS_CODE", "MEDIUM")>>,
     analysis |-> [isKnownScam |-> FALSE,
                   hasSuspiciousCode |-> FALSE,
                   hasUnlimitedApprovals |-> FALSE,
                   isNewContract |-> FALSE,
                   simulationResult |-> getDefaultSimulationResult,
                   aiAnalysis |-> getDefaultAIAnalysis],
     recommendation |-> "CAUTION"]

\* one of the analyses throws inside analyzeTransaction: its catch returns
\* the failsafe analysis and the promise is fulfilled with it
FailAnalysis(position) ==
    /\ batchResponse = null
    /\ batchAccepted(batchRequest)
    /\ position \in 1..Len(batchRequest)
    /\ \A k \in 1..Len(batchFinished) : batchFinished[k].position # position
    /\ batchFinished' =
          Append(batchFinished,
                 [position |-> position, threw |-> TRUE,
                  analysis |-> getFailsafeAnalysis])
    /\ UNCHANGED <<batchRequest, batchResponse, txRequest, serviceReplies,
                   riskAnalysis, collectVars, chainVars, cacheVars, reportingVars>>

\* one of the analyses started by transactions.map(...) finishes
FinishAnalysis(position) ==
    /\ batchResponse = null
    /\ batchAccepted(batchRequest)
    /\ position \in 1..Len(batchRequest)
    /\ \A k \in 1..Len(batchFinished) : batchFinished[k].position # position
    /\ batchFinished' =
          Append(batchFinished,
                 [position |-> position, threw |-> FALSE,
                  analysis |-> analyzeTransaction(
                                   batchRequest[position],
                                   repliesAbout(batchRequest[position].to))])
    /\ UNCHANGED <<batchRequest, batchResponse, txRequest, serviceReplies,
                   riskAnalysis, collectVars, chainVars, cacheVars, reportingVars>>

\* every analysis has finished: Promise.all resolves and res.json is sent
RespondBatch ==
    /\ batchResponse = null
    /\ batchAccepted(batchRequest)
    /\ Len(batchFinished) = Len(batchRequest)
    /\ batchResponse' = <<[status |-> 200, success |-> TRUE,
                           data |-> PromiseAll(batchFinished)]>>
    /\ UNCHANGED <<batchRequest, batchFinished, txRequest, serviceReplies,
                   riskAnalysis, collectVars, chainVars, cacheVars, reportingVars>>

\* the transactions sent in batches, one of them with a malformed sender,
\* one with the value '-1000000000000000000'
BatchTransactions ==
    {[to |-> "t1", from |-> "alice", data |-> HexData(2, "0x", <<>>),
      value |-> 1 * 1000],
     [to |-> "t2", from |-> "alice", data |-> HexData(2, "0x", <<>>),
      value |-> 0],
     [to |-> "t3", from |-> "alice",
      data |-> HexData(138, "0x095ea7b3", maxUint256), value |-> 0],
     [to |-> "t1", from |-> "0x12", data |-> HexData(2, "0x", <<>>),
      value |-> 0],
     [to |-> "t1", from |-> "alice", data |-> HexData(2, "0x", <<>>),
      value |-> -1 * 1000]}

\* every batch of up to MaxBatchLen transactions, and one too long
BatchRequests ==
    UNION {[1..n -> BatchTransactions] : n \in 0..MaxBatchLen}
    \cup {[i \in 1..MAX_BATCH_TRANSACTIONS + 1 |->
             [to |-> "t1", from |-> "alice", data |-> HexData(2, "0x", <<>>),
              value |-> 1 * 1000]]}

\* POST /api/analysis/batch has arrived
InitBatchAnalysis ==
    /\ batchRequest \in BatchRequests
    /\ batchFinished = <<>>
    /\ batchResponse = null
    /\ contract_info = [address \in CacheAddresses |-> null]
    /\ fetches = [address \in CacheAddresses |-> 0]
    /\ reports = <<>>
    /\ reporters = [u \in Users |-> NoReporter]
    /\ userReports = [u \in Users |-> <<>>]
    /\ reportExists = {}
    /\ reportCounter = 0
    /\ tokenHeld = 0
    /\ rewardMinters = [a \in {Owner, Reporting} |-> a = Owner]
    /\ payouts = <<>>
    /\ txRequest = NoAnalysis
    /\ serviceReplies = NoAnalysis
    /\ riskAnalysis = NoAnalysis
    /\ sourceStatus = null
    /\ settleOrder = null
    /\ elapsed = 0
    /\ pendingTransactions = <<>>
    /\ userNonces = [u \in Users |-> 0]
    /\ emergencyBlocked = [u \in Users |-> FALSE]
    /\ emergencyMode = FALSE
    /\ bypassMode = FALSE
    /\ balance = 0
    /\ inCall = null
    /\ securityData = [t \in Targets |->
                         [riskScore |-> 0, isBlacklisted |-> FALSE, reportCount |-> 0]]
    /\ userProfiles = [u \in Users |-> [threatsBlocked |-> 0, reputationScore |-> 0]]
    /\ authorizedAnalyzers = [a \in {Owner, Firewall} |-> TRUE]
    /\ blacklistedAddresses = <<>>
    /\ now = 1
    /\ ledger = <<>>

FinishAnalyses == \E position \in 1..MAX_BATCH_TRANSACTIONS : FinishAnalysis(position)

NextBatchAnalysis == RejectBatch \/ FinishAnalyses \/ RespondBatch

SpecBatchAnalysis == InitBatchAnalysis /\ [][NextBatchAnalysis]_vars

FailAnalyses == \E position \in 1..MAX_BATCH_TRANSACTIONS : FailAnalysis(position)

\* batch analysis with analyses that throw
NextBatchFailure == RejectBatch \/ FinishAnalyses \/ FailAnalyses \/ RespondBatch

SpecBatchFailure == InitBatchAnalysis /\ [][NextBatchFailure]_vars

\* ------------------------------------------- the call to the target followed
\* executeQueuedTransaction taken in steps: _executeTransaction sets the
\* executed flag and starts target.call; the target may call back into the
\* firewall; the call returns.

\* faulty variant: target.call started with the executed flag not yet set
callTargetFlagAfter(msgSender, txId) ==
    /\ inCall = null
    /\ txId \in TxIds
    /\ ~pendingTransactions[txId].executed
    /\ QuarantineOver(pendingTransactions[txId])
    /\ ~RiskIncreased(pendingTransactions[txId].target)
    /\ CanExecute(pendingTransactions, txId, balance)
    /\ LET r == executeTransaction(pendingTransactions, ledger, balance, txId,
                                   msgSender, TRUE)
       IN  /\ ledger' = r.ledger
           /\ balance' = r.balance
    /\ inCall' = <<[txId |-> txId, msgSender |-> msgSender]>>
    /\ UNCHANGED <<pendingTransactions, userNonces, emergencyBlocked,
                   emergencyMode, bypassMode, registryVars, now, apiVars,
                   reportingVars>>

callTarget(msgSender, txId) ==
    /\ inCall = null
    /\ txId \in TxIds
    /\ ~pendingTransactions[txId].executed
    /\ QuarantineOver(pendingTransactions[txId])
    /\ ~RiskIncreased(pendingTransactions[txId].target)
    /\ CanExecute(pendingTransactions, txId, balance)
    /\ LET r == executeTransaction(pendingTransactions, ledger, balance, txId,
                                   msgSender, TRUE)
       IN  /\ pendingTransactions' = r.pending
           /\ ledger' = r.ledger
           /\ balance' = r.balance
    /\ inCall' = <<[txId |-> txId, msgSender |-> msgSender]>>
    /\ UNCHANGED <<userNonces, emergencyBlocked, emergencyMode, bypassMode,
                   registryVars, now, apiVars,
                   reportingVars>>

\* msg.sender of a call the target makes from inside target.call
Callee == pendingTransactions[inCall[1].txId].target

\* the target calls a nonReentrant function: the guard is entered, the inner
\* call reverts and leaves the state as it was
reenterSafeExecute ==
    /\ inCall # null
    /\ \E target \in Targets, data \in Payloads, value \in Values :
          IF nonReentrant(TRUE)
          THEN safeExecute(Callee, target, data, value, value)
          ELSE UNCHANGED vars

reenterExecuteQueued ==
    /\ inCall # null
    /\ \E txId \in TxIds :
          IF nonReentrant(TRUE)
          THEN executeQueuedTransaction(Callee, txId)
          ELSE UNCHANGED vars

reenterBatchExecute ==
    /\ inCall # null
    /\ \E target \in Targets, data \in Payloads, value \in Values, n \in 0..1 :
          IF nonReentrant(TRUE)
          THEN batchExecute(Callee, Repeat(target, n), Repeat(data, n),
                            Repeat(value, n), value)
          ELSE UNCHANGED vars

\* emergencyCancel is not nonReentrant: the target's call runs
reenterEmergencyCancel ==
    /\ inCall # null
    /\ \E txId \in TxIds : emergencyCancel(Callee, txId)

\* target.call returns; after a failed call the value is transferred to the
\* caller of executeQueuedTransaction
returnFromCall(success) ==
    /\ inCall # null
    /\ LET txId == inCall[1].txId
       IN  ledger' = [ledger EXCEPT ![txId] =
                         IF ~success
                         THEN Transferred(@, RefundRecipient(inCall[1].msgSender, txId),
                                          pendingTransactions[txId].value, "fail")
                         ELSE @]
    /\ inCall' = null
    /\ UNCHANGED <<pendingTransactions, userNonces, emergencyBlocked,
                   emergencyMode, bypassMode, balance, registryVars, now, apiVars,
                   reportingVars>>

CallTarget == \E msgSender \in Users, txId \in TxIds : callTarget(msgSender, txId)

ReturnFromCall == \E success \in BOOLEAN : returnFromCall(success)

\* the analyzer rates a target high risk: its admissions are quarantined
RateHigh == \E target \in Targets : updateSecurityScore(target, HIGH_RISK_THRESHOLD)

\* between transactions: submissions, the rating, time
Outside == inCall = null /\ (Submit \/ RateHigh \/ Tick)

NextReentrancy ==
    \/ Outside
    \/ CallTarget
    \/ reenterSafeExecute
    \/ reenterExecuteQueued
    \/ reenterBatchExecute
    \/ reenterEmergencyCancel
    \/ ReturnFromCall

SpecReentrancy == Init /\ [][NextReentrancy]_vars

\* ------------------------------------------------------ the registry alone
RegistryTargets == Targets \cup {"t2"}

InitRegistry ==
    /\ securityData = [t \in RegistryTargets |->
                         [riskScore |-> 0, isBlacklisted |-> FALSE, reportCount |-> 0]]
    /\ blacklistedAddresses = <<>>
    /\ userProfiles = [u \in Users |-> [threatsBlocked |-> 0, reputationScore |-> 0]]
    /\ authorizedAnalyzers = [a \in {Owner, Firewall} |-> TRUE]
    /\ pendingTransactions = <<>>
    /\ userNonces = [u \in Users |-> 0]
    /\ emergencyBlocked = [u \in Users |-> FALSE]
    /\ emergencyMode = FALSE
    /\ bypassMode = FALSE
    /\ balance = 0
    /\ inCall = null
    /\ now = 1
    /\ ledger = <<>>
    /\ txRequest = NoAnalysis
    /\ serviceReplies = NoAnalysis
    /\ riskAnalysis = NoAnalysis
    /\ sourceStatus = null
    /\ settleOrder = null
    /\ elapsed = 0
    /\ batchRequest = null
    /\ batchFinished = null
    /\ batchResponse = null
    /\ contract_info = [address \in CacheAddresses |-> null]
    /\ fetches = [address \in CacheAddresses |-> 0]
    /\ reports = <<>>
    /\ reporters = [u \in Users |-> NoReporter]
    /\ userReports = [u \in Users |-> <<>>]
    /\ reportExists = {}
    /\ reportCounter = 0
    /\ tokenHeld = 0
    /\ rewardMinters = [a \in {Owner, Reporting} |-> a = Owner]
    /\ payouts = <<>>

UpdateScores ==
    \E target \in RegistryTargets \cup {ZERO_ADDRESS}, riskScore \in ScoreInputs :
        updateSecurityScore(target, riskScore)

ReportScams == \E target \in RegistryTargets : reportScamAddress(target)

Blacklists == \E target \in RegistryTargets : blacklistAddress(target)

Whitelists == \E target \in RegistryTargets : whitelistAddress(target)

NextRegistry == UpdateScores \/ ReportScams \/ Blacklists \/ Whitelists

SpecRegistry == InitRegistry /\ [][NextRegistry]_vars

\* ------------------------------------------------ contract-info cache
\* Date.now() and CURRENT_TIMESTAMP, in hours since 1970-01-01; the run
\* starts on 2024-01-01
DateNow == 473352 + now

\* config.cache.contractInfoTtl, in hours
contractInfoTtl == (24 * 60 * 60 * 1000) \div (60 * 60 * 1000)

\* variant: the row's cached_at handed on as cachedAt, the field
\* isCacheValid reads
getCachedContractInfoWithCachedAt(address) ==
    IF contract_info[address] = null
    THEN null
    ELSE <<[address |-> address,
            createdAt |-> contract_info[address][1].created_at,
            cachedAt |-> contract_info[address][1].cached_at]>>

\* the ContractInfo built from the row of the address: cached_at is not
\* among the fields copied
getCachedContractInfo(address) ==
    IF contract_info[address] = null
    THEN null
    ELSE <<[address |-> address,
            createdAt |-> contract_info[address][1].created_at]>>

\* contractInfo.cachedAt || 0, as milliseconds since 1970 turned to hours
cachedAtOrZero(contractInfo) ==
    IF "cachedAt" \in DOMAIN contractInfo THEN contractInfo.cachedAt ELSE 0

isCacheValid(contractInfo) ==
    LET cacheAge == DateNow - cachedAtOrZero(contractInfo)
    IN  cacheAge < contractInfoTtl

\* INSERT ... ON CONFLICT (address) DO UPDATE ... cached_at = CURRENT_TIMESTAMP
cacheContractInfo(address) ==
    [contract_info EXCEPT ![address] =
        <<[created_at |-> DateNow, cached_at |-> DateNow]>>]

getContractInfo(address) ==
    LET cached == getCachedContractInfo(address)
    IN  /\ IF cached # null /\ isCacheValid(cached[1])
           THEN UNCHANGED <<contract_info, fetches>>
           ELSE /\ fetches[address] < MaxFetches
                /\ fetches' = [fetches EXCEPT ![address] = @ + 1]
                /\ contract_info' = cacheContractInfo(address)
        /\ UNCHANGED <<txRequest, serviceReplies, riskAnalysis, collectVars,
                       batchVars, chainVars, reportingVars>>

GetContractInfo == \E address \in CacheAddresses : getContractInfo(address)

NextCache == GetContractInfo \/ Tick

SpecCache == Init /\ [][NextCache]_vars

\* ---------------------------------------------- community reports alone
SubmitReports ==
    \E msgSender \in Users, target \in RegistryTargets :
        submitReport(msgSender, target, MIN_STAKE)

Votes ==
    \E msgSender \in Users, reportId \in DOMAIN reports, support \in BOOLEAN :
        voteOnReport(msgSender, reportId, support, MIN_VOTING_STAKE)

Reviews == \E reportId \in DOMAIN reports : reviewReport(reportId)

Finalizes ==
    \E msgSender \in Users, reportId \in DOMAIN reports :
        finalizeReport(msgSender, reportId)

Disputes == \E reportId \in DOMAIN reports : disputeReport(reportId)

Withdrawals ==
    \E msgSender \in Users, reportId \in DOMAIN reports :
        emergencyWithdrawStake(msgSender, reportId)

AddMinter == addRewardMinter(Reporting)

NextReporting ==
    \/ SubmitReports \/ Votes \/ Reviews \/ Finalizes \/ Disputes
    \/ Withdrawals \/ AddMinter \/ Weeks

SpecReporting == InitRegistry /\ [][NextReporting]_vars

\* admissions under the emergency switches: submission, release and
\* cancellation interleaved with the owner's emergency controls
NextEmergency == Submit \/ Release \/ Cancel \/ Emergency \/ RateHigh \/ Tick

SpecEmergency == Init /\ [][NextEmergency]_vars

NextAll == Next \/ Emergency \/ Reports \/ Analyzers

SpecAll == Init /\ [][NextAll]_vars

\* ================================================================ claims
Quarantined(txId) == ledger[txId].state = "Quarantined"

\* the admissions created by the step (safeExecute creates exactly one)
Submitted == (DOMAIN pendingTransactions') \ TxIds

RECURSIVE SumValues(_)
SumValues(ids) ==
    IF ids = {} THEN 0
    ELSE LET txId == CHOOSE x \in ids : TRUE
         IN  pendingTransactions[txId].value + SumValues(ids \ {txId})

\* the value held in escrow: the values of the Quarantined admissions
Escrowed == SumValues({txId \in TxIds : Quarantined(txId)})

\* C1: a release (executeQueuedTransaction) of an admission that is already
\* Executed or Blocked is rejected or changes nothing, whoever calls it; so
\* over any sequence of releases the target is invoked at most once and the
\* value is refunded at most once for the id.
C1_ReleaseIdempotent ==
    \A txId \in TxIds, msgSender \in Users :
        ledger[txId].state \in {"Executed", "Blocked"}
        => ~ENABLED (executeQueuedTransaction(msgSender, txId) /\ vars' # vars)

\* C2: execution and refund are mutually exclusive: no admission id is
\* refunded as Blocked and also has its target invoked.
C2_ExecuteXorRefund ==
    \A txId \in TxIds :
        ~(ledger[txId].blockRefunds > 0 /\ ledger[txId].calls > 0)

\* C3: escrow invariant: in every reachable state the firewall's balance is
\* at least the sum of the values of the Quarantined admissions.
C3_EscrowCovered == balance >= Escrowed

\* C4: every refund of an admission's value (at submission, at release, by
\* emergencyCancel, after a failed call) is paid to the address that
\* submitted the admission.
C4_RefundToSubmitter ==
    \A txId \in TxIds : ledger[txId].refundTo \subseteq {ledger[txId].sender}

\* C5: a submission whose target is blacklisted or whose score is at least
\* the critical threshold ends Blocked: within the submission the target is
\* not called and the whole msg.value goes back to the sender, so the
\* firewall's balance is what it was before.
C5_BlockedAtSubmission ==
    [][\A txId \in Submitted :
          LET target == pendingTransactions'[txId].target
          IN  (isBlacklisted(target) \/ getRiskScore(target) >= CRITICAL_RISK_THRESHOLD)
              => /\ ledger'[txId].state = "Blocked"
                 /\ ledger'[txId].calls = 0
                 /\ ledger'[txId].refundedWei = ledger'[txId].msgValue
                 /\ ledger'[txId].refundTo \subseteq {ledger'[txId].sender}
                 /\ balance' = balance]_vars

C5_Witness ==
    \E txId \in TxIds :
        /\ ledger[txId].decision = "Blocked"
        /\ ledger[txId].msgValue > pendingTransactions[txId].value
        /\ pendingTransactions[txId].value > 0
        /\ ledger[txId].calls = 0
        /\ ledger[txId].refundTo = {ledger[txId].sender}

\* C6: every submission that ends Blocked increments the sender's
\* threatsBlocked counter in the registry by exactly one.
C6_BlockedCounted ==
    [][\A txId \in Submitted :
          ledger'[txId].state = "Blocked"
          => userProfiles'[ledger'[txId].sender].threatsBlocked
               = userProfiles[ledger'[txId].sender].threatsBlocked + 1]_vars

\* C7 as stated: a submission with a score in [75,89] becomes Quarantined.
C7_QuarantineFrom75 ==
    [][\A txId \in Submitted :
          pendingTransactions'[txId].riskScore \in 75..89
          => ledger'[txId].state = "Quarantined"]_vars

\* C7 amended: a submission with a score in [50,74] whose target is not
\* blacklisted becomes Quarantined: it is neither executed nor blocked at
\* submission (no call, no refund, executed stays false).
C7_QuarantineFrom50 ==
    [][\A txId \in Submitted :
          (getRiskScore(txId[2]) \in 50..74 /\ ~isBlacklisted(txId[2]))
          => /\ ledger'[txId].state = "Quarantined"
             /\ ~pendingTransactions'[txId].executed
             /\ ledger'[txId].calls = 0
             /\ ledger'[txId].refundTo = {}]_vars

C7_Witness ==
    \E txId \in TxIds :
        /\ ledger[txId].decision = "Quarantined"
        /\ pendingTransactions[txId].riskScore \in 50..74
        /\ ~pendingTransactions[txId].executed

\* C8: a submission whose target is not blacklisted and whose score is at
\* least the high and below the critical threshold is Quarantined: the
\* submission time and the score are recorded, the target is not called and
\* the firewall keeps msg.value; with a score below the high threshold the
\* target is called at once, once, with the supplied payload and value.
C8_QuarantineOrExecute ==
    [][\A txId \in Submitted :
          LET target == txId[2]
              riskScore == getRiskScore(target)
          IN  ~isBlacklisted(target) =>
                /\ (riskScore >= HIGH_RISK_THRESHOLD
                    /\ riskScore < CRITICAL_RISK_THRESHOLD)
                   => /\ ledger'[txId].state = "Quarantined"
                      /\ pendingTransactions'[txId].timestamp = now
                      /\ pendingTransactions'[txId].riskScore = riskScore
                      /\ ledger'[txId].calls = 0
                      /\ ledger'[txId].refundedWei = 0
                      /\ balance' = balance + ledger'[txId].msgValue
                /\ riskScore < HIGH_RISK_THRESHOLD
                   => /\ ledger'[txId].state = "Executed"
                      /\ pendingTransactions'[txId].executed
                      /\ ledger'[txId].calls = 1
                      /\ ledger'[txId].callArgs = {<<txId[2], txId[3], txId[4]>>}]_vars

C8_Witness ==
    \E txId \in TxIds :
        /\ ledger[txId].decision = "Quarantined"
        /\ Quarantined(txId)
        /\ pendingTransactions[txId].value > 0
        /\ pendingTransactions[txId].timestamp = now
        /\ pendingTransactions[txId].riskScore = getRiskScore(txId[2])
        /\ ledger[txId].calls = 0
        /\ balance = ledger[txId].msgValue

\* C9: while now < submittedAt + QUARANTINE_PERIOD the release of a
\* Quarantined admission is rejected, whoever calls it: the transaction
\* reverts, so the admission stays Quarantined, no call is made and no value
\* moves.
C9_EarlyReleaseRejected ==
    \A txId \in TxIds, msgSender \in Users :
        (Quarantined(txId)
         /\ now < pendingTransactions[txId].timestamp + QUARANTINE_PERIOD)
        => ~ENABLED executeQueuedTransaction(msgSender, txId)

C9_Witness ==
    \E txId \in TxIds :
        /\ Quarantined(txId)
        /\ now > pendingTransactions[txId].timestamp
        /\ now < pendingTransactions[txId].timestamp + QUARANTINE_PERIOD
        /\ balance >= pendingTransactions[txId].value

\* C10: once the quarantine period has elapsed, the release of a Quarantined
\* admission whose target has the blacklist status and the score it had at
\* submission goes through and yields Executed, the target having been
\* called once with the original payload and value.
C10_ReleaseExecutes ==
    \A txId \in TxIds, msgSender \in Users :
        (/\ Quarantined(txId)
         /\ now >= pendingTransactions[txId].timestamp + QUARANTINE_PERIOD
         /\ ~isBlacklisted(pendingTransactions[txId].target)
         /\ getRiskScore(pendingTransactions[txId].target)
              = pendingTransactions[txId].riskScore)
        => ENABLED (/\ executeQueuedTransaction(msgSender, txId)
                    /\ ledger'[txId].state = "Executed"
                    /\ ledger'[txId].calls = 1
                    /\ ledger'[txId].callArgs = {<<txId[2], txId[3], txId[4]>>})

\* C11: the release of a Quarantined admission whose target has been
\* blacklisted since submission goes through and yields Blocked: the value
\* leaves the firewall as a refund and the target is not called.
C11_BlacklistedReleaseBlocks ==
    \A txId \in TxIds, msgSender \in Users :
        (/\ Quarantined(txId)
         /\ QuarantineOver(pendingTransactions[txId])
         /\ isBlacklisted(pendingTransactions[txId].target))
        => /\ ENABLED (/\ executeQueuedTransaction(msgSender, txId)
                       /\ ledger'[txId].state = "Blocked")
           /\ ~ENABLED (/\ executeQueuedTransaction(msgSender, txId)
                        /\ ~(/\ ledger'[txId].state = "Blocked"
                             /\ ledger'[txId].calls = ledger[txId].calls
                             /\ ledger'[txId].refundedWei
                                  = ledger[txId].refundedWei
                                    + pendingTransactions[txId].value
                             /\ balance' = balance - pendingTransactions[txId].value))

\* the blacklist status and score the registry holds now for the target
RegistryNowBlocks(txId) ==
    \/ securityData[pendingTransactions[txId].target].isBlacklisted
    \/ securityData[pendingTransactions[txId].target].riskScore
         >= CRITICAL_RISK_THRESHOLD

\* C12: the outcome of a release is decided by the blacklist status and the
\* score the registry holds for the target at release time, whatever score
\* was stored at submission: if the registry now blocks the target no
\* release calls it and every release refunds, otherwise no release refunds
\* as Blocked and every release calls the target.
C12_ReleaseReadsRegistry ==
    \A txId \in TxIds, msgSender \in Users :
        /\ RegistryNowBlocks(txId)
           => ~ENABLED (/\ executeQueuedTransaction(msgSender, txId)
                        /\ ~(/\ ledger'[txId].calls = ledger[txId].calls
                             /\ ledger'[txId].state = "Blocked"
                             /\ ledger'[txId].refundedWei
                                  = ledger[txId].refundedWei
                                    + pendingTransactions[txId].value))
        /\ ~RegistryNowBlocks(txId)
           => ~ENABLED (/\ executeQueuedTransaction(msgSender, txId)
                        /\ ~(/\ ledger'[txId].calls = ledger[txId].calls + 1
                             /\ ledger'[txId].blockRefunds
                                  = ledger[txId].blockRefunds
                             /\ ledger'[txId].state # "Blocked"))

\* an admission quarantined at a score below the critical threshold, released
\* after the registry changed: refunded as Blocked, its target never called
C12_Witness ==
    \E txId \in TxIds :
        /\ ledger[txId].decision = "Quarantined"
        /\ pendingTransactions[txId].riskScore < CRITICAL_RISK_THRESHOLD
        /\ getRiskScore(pendingTransactions[txId].target)
             # pendingTransactions[txId].riskScore
        /\ ledger[txId].state = "Blocked"
        /\ ledger[txId].blockRefunds = 1
        /\ ledger[txId].calls = 0
        /\ ~pendingTransactions[txId].executed

\* the owner and the submitter of the admission
AuthorizedParty(msgSender, txId) == msgSender \in {Owner, ledger[txId].sender}

\* C13: emergencyCancel called by a party that is neither the owner nor the
\* submitter, or on an admission that is not Quarantined, changes nothing.
C13_CancelOnlyAuthorizedQuarantined ==
    \A txId \in TxIds, msgSender \in Users :
        (~AuthorizedParty(msgSender, txId) \/ ~Quarantined(txId))
        => ~ENABLED (emergencyCancel(msgSender, txId) /\ vars' # vars)

\* what batchExecute requires of its arguments
ValidBatch(b) ==
    /\ Len(b.targets) = Len(b.datas)
    /\ Len(b.targets) = Len(b.values)
    /\ Len(b.targets) <= 10
    /\ b.msgValue >= totalValue(b.values)

\* C14: a batch of n <= 10 items with arrays of equal length and msg.value
\* at least the sum of the values, sent by a sender who may submit, completes
\* and creates n admissions.
C14_BatchCompletes ==
    \A msgSender \in Senders, b \in BatchInputs :
        (ValidBatch(b) /\ ~emergencyBlocked[msgSender] /\ ~emergencyMode)
        => ENABLED (/\ batchExecute(msgSender, b.targets, b.datas, b.values,
                                    b.msgValue)
                    /\ Cardinality(DOMAIN pendingTransactions')
                         = Cardinality(TxIds) + Len(b.targets))

\* C15: a batch of more than 10 items, or with arrays of different lengths,
\* or with msg.value below the sum of the values, is rejected as a whole: the
\* transaction reverts, so that no admission is created, no nonce changes, no
\* target is called and no value is kept.
C15_InvalidBatchRejected ==
    \A msgSender \in Senders, b \in BatchInputs :
        ~ValidBatch(b)
        => ~ENABLED batchExecute(msgSender, b.targets, b.datas, b.values,
                                 b.msgValue)

\* a sender who may submit, with an admission on record, and batches invalid
\* in each of the three ways
C15_Witness ==
    /\ ~emergencyMode
    /\ ~emergencyBlocked["alice"]
    /\ TxIds # {}
    /\ userNonces["alice"] > 0
    /\ \E b \in BatchInputs : Len(b.targets) > 10 /\ Len(b.datas) = Len(b.targets)
                              /\ Len(b.values) = Len(b.targets)
                              /\ b.msgValue >= totalValue(b.values)
    /\ \E b \in BatchInputs : Len(b.targets) # Len(b.values) /\ Len(b.targets) = 0
    /\ \E b \in BatchInputs : /\ Len(b.targets) = Len(b.datas)
                              /\ Len(b.targets) = Len(b.values)
                              /\ Len(b.targets) \in 1..10
                              /\ b.msgValue < totalValue(b.values)

\* the factors of the transaction under analysis
Factors == riskFactorsOf(txRequest, serviceReplies)

\* the sum of the eight terms of the score, before the cap
RawScore ==
    (IF Factors.isKnownScam THEN 90 ELSE 0)
    + (IF Factors.hasSuspiciousCode THEN 60 ELSE 0)
    + (IF Factors.hasUnlimitedApprovals THEN 40 ELSE 0)
    + (IF Factors.isNewContract THEN 30 ELSE 0)
    + (IF Factors.simulationFailed THEN 50 ELSE 0)
    + Factors.aiRiskScore
    + calculateGasRiskScore(Factors.gasUsage, txRequest)
    + calculateTransactionRiskScore(txRequest)

HasCritical(warnings) ==
    \E i \in 1..Len(warnings) : warnings[i].severity = "CRITICAL"

\* C16: for every transaction and every answer of the components, the audit
\* sub-score being in 0..100, the risk score of the analysis is an integer in
\* 0..100.
C16_ScoreInRange ==
    riskAnalysis # NoAnalysis
    => /\ Factors.aiRiskScore \in 0..100
       /\ riskAnalysis[1].riskScore \in 0..100

\* terms that add up to more than 100, returned as 100
C16_Witness ==
    /\ riskAnalysis # NoAnalysis
    /\ RawScore > 100
    /\ riskAnalysis[1].riskScore = 100

\* scores and lists of warnings handed to getRecommendation
ScoreSamples == {0, 24, 25, 49, 50, 74, 75, 89, 90, 100}
Severities == {"LOW", "MEDIUM", "HIGH", "CRITICAL"}
WarningSamples ==
    {<<>>}
    \cup {<<Warning("SUSPICIOUS_CODE", a)>> : a \in Severities}
    \cup {<<Warning("HONEYPOT", a), Warning("SCAM_ADDRESS", b)>> :
            a \in Severities, b \in Severities}

Recommended(riskScore, warnings) ==
    IF HasCritical(warnings) \/ riskScore >= 90 THEN "BLOCK"
    ELSE IF riskScore >= 50 THEN "CAUTION"
    ELSE "PROCEED"

C20_AdditiveScore ==
    riskAnalysis # NoAnalysis
    => riskAnalysis[1].riskScore = (IF RawScore < 100 THEN RawScore ELSE 100)

\* several terms present and the sum below the cap
C20_Witness ==
    /\ riskAnalysis # NoAnalysis
    /\ Factors.isNewContract
    /\ Factors.aiRiskScore > 0
    /\ calculateGasRiskScore(Factors.gasUsage, txRequest) > 0
    /\ calculateTransactionRiskScore(txRequest) > 0
    /\ RawScore < 100
    /\ riskAnalysis[1].riskScore = RawScore

\* the part of the transaction-pattern term that comes from the value
ValueTerm(transaction) ==
    calculateTransactionRiskScore(transaction)
    - calculateTransactionRiskScore([transaction EXCEPT !.value = 0])

\* C21: the transaction-pattern term adds 20 for a value above 100 ETH, 10
\* for a value above 10 ETH and at most 100 ETH, nothing for a value of at
\* most 10 ETH.
C21_ValueTerm ==
    riskAnalysis # NoAnalysis
    => ValueTerm(txRequest) = (IF txRequest.value > 100 * 1000 THEN 20
                               ELSE IF txRequest.value > 10 * 1000 THEN 10
                               ELSE 0)

\* every component raised, or (the AI service) was not asked
AllDefaulted ==
    \A source \in Sources :
        \/ sourceStatus[source] = "rejected"
        \/ source = "ai" /\ skipsAI(txRequest)

\* the warnings that come from a component's answer
SourceDriven(warnings) ==
    {i \in 1..Len(warnings) :
        warnings[i].type \in {"SCAM_ADDRESS", "HONEYPOT", "SUSPICIOUS_CODE"}}

\* the gas term for the 21000 gas of the default simulation result
DefaultGasTerm == calculateGasRiskScore(21000, txRequest)

\* C22 as stated: with every component defaulted the score is the sum of the
\* gas term and the transaction-pattern term alone, and no warning comes from
\* a component.
C22_DefaultsBaseline ==
    (riskAnalysis # NoAnalysis /\ AllDefaulted)
    => /\ riskAnalysis[1].riskScore
            = DefaultGasTerm + calculateTransactionRiskScore(txRequest)
       /\ SourceDriven(riskAnalysis[1].warnings) = {}

\* C22: with every component defaulted the score is made of the terms read
\* from the transaction itself (40 for an unlimited approval, the gas term for
\* 21000 gas, the transaction-pattern term) and no warning comes from a
\* component; a transfer of 1 ETH with empty call data gets score 0, level LOW
\* and recommendation PROCEED.
C22_DefaultsFromTransaction ==
    (riskAnalysis # NoAnalysis /\ AllDefaulted)
    => /\ riskAnalysis[1].riskScore
            = (IF checkUnlimitedApprovals(txRequest) THEN 40 ELSE 0)
              + DefaultGasTerm + calculateTransactionRiskScore(txRequest)
       /\ SourceDriven(riskAnalysis[1].warnings) = {}
       /\ (txRequest.value = 1 * 1000 /\ ~NotEmptyData(txRequest.data))
          => /\ riskAnalysis[1].riskScore = 0
             /\ riskAnalysis[1].riskLevel = "LOW"
             /\ riskAnalysis[1].recommendation = "PROCEED"

\* the 1 ETH transfer analysed after all four components raised
C22_Witness ==
    /\ riskAnalysis # NoAnalysis
    /\ \A source \in Sources : sourceStatus[source] = "rejected" \/ source = "ai"
    /\ sourceStatus["simulation"] = "rejected"
    /\ txRequest.value = 1 * 1000
    /\ ~NotEmptyData(txRequest.data)
    /\ riskAnalysis[1].riskScore = 0

\* an ERC20 approve of the maximum amount, all else clean
CleanMaxApprove ==
    /\ txRequest.data.length >= 10
    /\ txRequest.data.selector = "0x095ea7b3"
    /\ txRequest.data.word = [i \in 1..64 |-> "f"]
    /\ ~Factors.isKnownScam
    /\ ~Factors.simulationFailed
    /\ ~Factors.hasSuspiciousCode
    /\ ~Factors.isNewContract

HasUnlimitedApprovalWarning(warnings) ==
    \E i \in 1..Len(warnings) : warnings[i].type = "UNLIMITED_APPROVAL"

Priority(warning) ==
    IF warning.type = "SCAM_ADDRESS" THEN 1
    ELSE IF warning.type = "HONEYPOT" THEN 2
    ELSE IF warning.type = "UNLIMITED_APPROVAL" THEN 3
    ELSE IF warning.type = "SUSPICIOUS_CODE" /\ warning.severity = "MEDIUM" THEN 4
    ELSE 5

\* C24: in whatever order the four components settle, the warnings of the
\* returned analysis stand in the order Scam, Honeypot, UnlimitedApproval,
\* SuspiciousCode, NewContract; a scam warning stands before an
\* unlimited-approval warning.
C24_WarningOrder ==
    riskAnalysis # NoAnalysis
    => LET warnings == riskAnalysis[1].warnings
       IN  \A i, j \in 1..Len(warnings) :
               i < j => Priority(warnings[i]) < Priority(warnings[j])

\* the scam database answered last, its warning is first
C24_Witness ==
    /\ riskAnalysis # NoAnalysis
    /\ Len(settleOrder) = 4
    /\ settleOrder[4] = "scam"
    /\ settleOrder[1] = "ai"
    /\ Len(riskAnalysis[1].warnings) >= 3
    /\ riskAnalysis[1].warnings[1].type = "SCAM_ADDRESS"
    /\ \E i \in 2..Len(riskAnalysis[1].warnings) :
           riskAnalysis[1].warnings[i].type = "UNLIMITED_APPROVAL"
    /\ riskAnalysis[1].warnings[Len(riskAnalysis[1].warnings)].type = "SUSPICIOUS_CODE"

\* how many warnings of the analysis satisfy the type and severity
WarningCount(warnings, type, severities) ==
    Cardinality({i \in 1..Len(warnings) :
                    warnings[i].type = type /\ warnings[i].severity \in severities})

Once(condition) == IF condition THEN 1 ELSE 0

\* C25: each scored condition (known scam, failed simulation, unlimited
\* approval, audit findings, new contract) has exactly one warning in the
\* returned analysis when it holds and none when it does not.
C25_WarningPerCondition ==
    riskAnalysis # NoAnalysis
    => LET warnings == riskAnalysis[1].warnings
       IN  /\ WarningCount(warnings, "SCAM_ADDRESS", {"CRITICAL"})
                 = Once(Factors.isKnownScam)
           /\ WarningCount(warnings, "HONEYPOT", {"HIGH"})
                 = Once(Factors.simulationFailed)
           /\ WarningCount(warnings, "UNLIMITED_APPROVAL", {"HIGH"})
                 = Once(Factors.hasUnlimitedApprovals)
           /\ WarningCount(warnings, "SUSPICIOUS_CODE", {"MEDIUM"})
                 = Once(Factors.hasSuspiciousCode)
           /\ WarningCount(warnings, "SUSPICIOUS_CODE", {"LOW"})
                 = Once(Factors.isNewContract)
           /\ Len(warnings) = Once(Factors.isKnownScam) + Once(Factors.simulationFailed)
                              + Once(Factors.hasUnlimitedApprovals)
                              + Once(Factors.hasSuspiciousCode)
                              + Once(Factors.isNewContract)

Raised(source) == sourceStatus[source] = "rejected"

\* C26: whichever components raise, the analysis is returned only once all
\* four have settled and can then always be returned; in it a component that
\* raised stands with its default (simulation succeeded with 21000 gas, not
\* a known scam, not a new contract, audit risk 0 without factors) and a
\* component that answered stands with its answer.
C26_FailedSourcesDefaulted ==
    /\ (\A source \in Sources : sourceStatus[source] # "pending")
       => (riskAnalysis # NoAnalysis \/ ENABLED Return)
    /\ riskAnalysis # NoAnalysis
       => /\ \A source \in Sources : sourceStatus[source] # "pending"
          /\ riskAnalysis[1].analysis.simulationResult
                = IF Raised("simulation")
                  THEN [success |-> TRUE, gasUsed |-> <<21000>>, error |-> ""]
                  ELSE serviceReplies.simulation
          /\ riskAnalysis[1].analysis.isKnownScam
                = IF Raised("scam") THEN FALSE
                  ELSE /\ serviceReplies.scamInfo # null
                       /\ serviceReplies.scamInfo[1].riskLevel > 50
          /\ riskAnalysis[1].analysis.isNewContract
                = IF Raised("contract") THEN FALSE
                  ELSE /\ serviceReplies.contractInfo # null
                       /\ serviceReplies.contractInfo[1].daysSinceCreation # null
                       /\ serviceReplies.contractInfo[1].daysSinceCreation[1] < 7
          /\ riskAnalysis[1].analysis.aiAnalysis
                = IF Raised("ai") \/ txRequest.data.length <= 10
                  THEN [contractRisk |-> 0, riskFactors |-> <<>>]
                  ELSE serviceReplies.ai

\* simulation and AI raised, scam database and contract service answered
C26_Witness ==
    /\ riskAnalysis # NoAnalysis
    /\ Raised("simulation") /\ Raised("ai")
    /\ ~Raised("scam") /\ ~Raised("contract")
    /\ ~serviceReplies.simulation.success
    /\ serviceReplies.ai.contractRisk = 100
    /\ riskAnalysis[1].analysis.simulationResult.success
    /\ riskAnalysis[1].analysis.aiAnalysis.contractRisk = 0
    /\ riskAnalysis[1].analysis.isKnownScam
    /\ riskAnalysis[1].analysis.isNewContract

\* C27: once the overall deadline config.timeouts.totalAnalysis has passed,
\* the analysis has been returned or can be returned at once, the components
\* still out counting as defaulted.
C27_ReturnsByDeadline ==
    elapsed >= config.timeouts.totalAnalysis
    => (riskAnalysis # NoAnalysis \/ ENABLED Return)

\* call data of at least a 4-byte selector: "0x" and eight hex digits
HoldsSelector(data) == data.length >= 2 + 2 * 4

\* C28: the returned analysis carries the answer of the AI service when the
\* call data holds at least a 4-byte selector, and the default AI analysis
\* (the service not asked) when it is empty or shorter.
C28_AuditIffSelector ==
    riskAnalysis # NoAnalysis
    => riskAnalysis[1].analysis.aiAnalysis
          = IF HoldsSelector(txRequest.data) THEN serviceReplies.ai
            ELSE [contractRisk |-> 0, riskFactors |-> <<>>]

\* the 32-byte word is 2^256 - 1: sixty-four hex digits f, in either case
IsMaxUint256(word) ==
    Len(word) = 64 /\ \A i \in 1..64 : word[i] \in {"f", "F"}

\* the 32-byte word is the ABI encoding of true: the number 1
IsTrueWord(word) ==
    Len(word) = 64 /\ word[64] = "1" /\ \A i \in 1..63 : word[i] = "0"

\* C29: the analysis reports an unlimited approval exactly when the call
\* data is approve (0x095ea7b3) with the amount 2^256 - 1 or
\* setApprovalForAll (0xa22cb465) with the boolean word equal to 1; for
\* every other selector it reports none.
C29_UnlimitedApprovalDetection ==
    riskAnalysis # NoAnalysis
    => riskAnalysis[1].analysis.hasUnlimitedApprovals
          = IF txRequest.data.length >= 10 /\ txRequest.data.selector = "0x095ea7b3"
            THEN IsMaxUint256(txRequest.data.word)
            ELSE IF txRequest.data.length >= 10
                    /\ txRequest.data.selector = "0xa22cb465"
            THEN IsTrueWord(txRequest.data.word)
            ELSE FALSE

\* the analysis of the transaction at a position of the batch
Assessment(position) ==
    analyzeTransaction(batchRequest[position], repliesAbout(batchRequest[position].to))

\* C30: an answered batch carries one analysis per transaction, that of the
\* i-th transaction at place i, in whatever order the analyses finished; a
\* batch of more than ten transactions is rejected with no analysis
\* finished, and no analysis of it ever finishes.
C30_BatchInInputOrder ==
    /\ (batchResponse # null /\ batchResponse[1].success)
       => /\ Len(batchResponse[1].data) = Len(batchRequest)
          /\ \A i \in 1..Len(batchRequest) :
                 batchResponse[1].data[i] = Assessment(i)
    /\ Len(batchRequest) > MAX_BATCH_TRANSACTIONS
       => /\ batchFinished = <<>>
          /\ ~ENABLED FinishAnalyses
          /\ ~ENABLED RespondBatch
          /\ batchResponse = null => ENABLED RejectBatch
          /\ batchResponse # null => batchResponse[1].status = 400

\* three different transactions answered, their analyses finished in the
\* reverse of the input order
C30_Witness ==
    /\ batchResponse # null
    /\ batchResponse[1].success
    /\ Len(batchRequest) = 3
    /\ batchFinished[1].position = 3
    /\ batchFinished[2].position = 2
    /\ batchFinished[3].position = 1
    /\ batchResponse[1].data[1] # batchResponse[1].data[3]
    /\ batchResponse[1].data[1].recommendation = "PROCEED"
    /\ batchResponse[1].data[2].recommendation = "BLOCK"

\* the analysis at a position of the batch threw
Threw(position) ==
    \E k \in 1..Len(batchFinished) :
        batchFinished[k].position = position /\ batchFinished[k].threw

\* C31: when analyses of a batch throw, the batch is still answered once all
\* have finished; the answer carries, for a transaction whose analysis threw,
\* the failsafe analysis (score 50, MEDIUM, CAUTION) and for every other
\* transaction its own analysis.
C31_FailureIsolated ==
    /\ (batchAccepted(batchRequest) /\ Len(batchFinished) = Len(batchRequest))
       => (batchResponse # null \/ ENABLED RespondBatch)
    /\ batchResponse # null /\ batchAccepted(batchRequest)
       => /\ batchResponse[1].success
          /\ Len(batchResponse[1].data) = Len(batchRequest)
          /\ \A i \in 1..Len(batchRequest) :
                 IF Threw(i)
                 THEN /\ batchResponse[1].data[i].riskLevel = "MEDIUM"
                      /\ batchResponse[1].data[i].recommendation = "CAUTION"
                      /\ batchResponse[1].data[i].riskScore = 50
                 ELSE batchResponse[1].data[i] = Assessment(i)

\* the second of three analyses threw, the scam recipient after it is still
\* blocked and the transfer before it proceeds
C31_Witness ==
    /\ batchResponse # null
    /\ Len(batchRequest) = 3
    /\ ~Threw(1) /\ Threw(2) /\ ~Threw(3)
    /\ batchResponse[1].success
    /\ batchResponse[1].data[1].recommendation = "PROCEED"
    /\ batchResponse[1].data[2].recommendation = "CAUTION"
    /\ batchResponse[1].data[3].recommendation = "BLOCK"

\* a transaction of valid shape: well-formed recipient and sender, no
\* negative amount
ValidShape(transaction) ==
    /\ isValidAddress(transaction.to)
    /\ isValidAddress(transaction.from)
    /\ transaction.value >= 0

\* C32: a batch holding a transaction of invalid shape (malformed sender or
\* recipient, negative value) has none of its transactions analysed and can
\* only be rejected.
C32_InvalidShapeRejected ==
    (\E i \in 1..Len(batchRequest) : ~ValidShape(batchRequest[i]))
    => /\ batchFinished = <<>>
       /\ ~ENABLED FinishAnalyses
       /\ batchResponse # null => batchResponse[1].status = 400

\* the transaction of test scenario 1: transfer(address, uint256), 1 ETH
Scenario1 ==
    /\ txRequest.data.selector = "0xa9059cbb"
    /\ txRequest.data.length = 138
    /\ txRequest.value = 1 * 1000

\* C33: the transaction of test scenario 1, analysed with the components as
\* shipped, is assessed LOW with recommendation PROCEED.
C33_Scenario1Safe ==
    (riskAnalysis # NoAnalysis /\ Scenario1 /\ serviceReplies = shippedReplies)
    => /\ riskAnalysis[1].riskLevel = "LOW"
       /\ riskAnalysis[1].recommendation = "PROCEED"

\* C34: after any sequence of updateSecurityScore, reportScamAddress,
\* blacklistAddress and whitelistAddress calls, every address whose stored
\* risk score is 75 or more is blacklisted and every stored risk score is
\* at most 100.
C34_AutoBlacklist ==
    \A target \in DOMAIN securityData :
        /\ securityData[target].riskScore >= 75 => securityData[target].isBlacklisted
        /\ securityData[target].riskScore <= 100

\* both addresses scored 75 and blacklisted by it
C34_Witness ==
    /\ \A target \in DOMAIN securityData :
           /\ securityData[target].riskScore = 75
           /\ securityData[target].isBlacklisted
    /\ Len(blacklistedAddresses) = 2

\* how often an address stands in the blacklistedAddresses array
Listed(target) ==
    Cardinality({i \in 1..Len(blacklistedAddresses) : blacklistedAddresses[i] = target})

\* C38: after any sequence of updateSecurityScore, reportScamAddress,
\* blacklistAddress and whitelistAddress calls, an address stands in
\* blacklistedAddresses exactly when it is blacklisted, and at most once.
C38_ListAgreesWithFlags ==
    \A target \in DOMAIN securityData :
        /\ Listed(target) <= 1
        /\ Listed(target) = 1 <=> securityData[target].isBlacklisted

\* C35: while target.call of an admission is running, no step (a call the
\* target makes back into safeExecute, executeQueuedTransaction, batchExecute
\* or emergencyCancel included) makes a further call to the target for that
\* admission or transfers a refund for it, and its executed flag stays set;
\* only the return of a failed call refunds it.
C35_NoReentrantExecution ==
    [][inCall # null
       => LET txId == inCall[1].txId
          IN  /\ pendingTransactions[txId].executed
              /\ pendingTransactions'[txId].executed
              /\ ledger'[txId].calls = ledger[txId].calls
              /\ ledger'[txId].blockRefunds = ledger[txId].blockRefunds
              /\ inCall' # null => ledger'[txId] = ledger[txId]]_vars

\* inside the call of one admission the target has cancelled another
\* admission and taken its refund; the admission being executed has its one
\* call and no refund
C35_Witness ==
    /\ inCall # null
    /\ ledger[inCall[1].txId].calls = 1
    /\ ledger[inCall[1].txId].refundedWei = 0
    /\ \E txId \in TxIds :
          /\ txId # inCall[1].txId
          /\ Callee \in ledger[txId].refundTo

\* C36: an admission record is created once per submission and is never
\* deleted or overwritten: over every step each existing record stays in
\* pendingTransactions with the same target, payload, value, submission
\* timestamp and score snapshot, its executed flag never goes back from
\* true to false, and the number of records grows exactly by the number
\* of submissions accepted in the step.
C36_RecordImmutable ==
    [][/\ \A txId \in TxIds :
            /\ txId \in DOMAIN pendingTransactions'
            /\ pendingTransactions'[txId].target = pendingTransactions[txId].target
            /\ pendingTransactions'[txId].data = pendingTransactions[txId].data
            /\ pendingTransactions'[txId].value = pendingTransactions[txId].value
            /\ pendingTransactions'[txId].timestamp
                   = pendingTransactions[txId].timestamp
            /\ pendingTransactions'[txId].riskScore
                   = pendingTransactions[txId].riskScore
            /\ pendingTransactions[txId].executed
                   => pendingTransactions'[txId].executed
       /\ Cardinality(DOMAIN pendingTransactions') - Cardinality(TxIds)
              = (userNonces["alice"]' + userNonces["bob"]') - TotalTx]_vars

\* two records exist, one of them quarantined at submission and executed
\* later, the other cancelled
C36_Witness ==
    /\ Cardinality(TxIds) = 2
    /\ \E txId \in TxIds :
          /\ ledger[txId].decision = "Quarantined"
          /\ ledger[txId].state = "Executed"
          /\ pendingTransactions[txId].executed
    /\ \E txId \in TxIds :
          /\ ledger[txId].decision = "Quarantined"
          /\ ledger[txId].state = "Blocked"
          /\ pendingTransactions[txId].executed

\* C37: no step taken while emergency mode is active adds a call to a
\* target for any admission, and no step taken while the submitter of an
\* admission is emergency-blocked adds a call to a target for that
\* admission.
C37_NoCallUnderEmergency ==
    [][\A txId \in DOMAIN ledger' :
          (emergencyMode \/ emergencyBlocked[ledger'[txId].sender])
              => ledger'[txId].calls
                     = IF txId \in DOMAIN ledger THEN ledger[txId].calls ELSE 0]_vars

\* C39: a getContractInfo call for an address whose contract_info row was
\* cached less than the 24-hour TTL ago returns the cached entry and does
\* not fetch from the blockchain again.
C39_CachedWithinTtl ==
    [][\A address \in CacheAddresses :
          (/\ contract_info[address] # null
           /\ DateNow - contract_info[address][1].cached_at < contractInfoTtl)
              => fetches'[address] = fetches[address]]_vars

\* C40: over any sequence of calls a community report is finalized at most
\* once and emergencyWithdrawStake pays the reporter half the stake at
\* most once per report.
C40_PaidOnce ==
    \A reportId \in DOMAIN payouts :
        /\ payouts[reportId].finalized <= 1
        /\ payouts[reportId].withdrawn <= 1

====
